---- MODULE Spec2Model ----
(***************************************************************************)
(* A model of the s3-vault-proxy gateway: the Key Gateway (vault client:   *)
(* ARN -> transit key resolution, encrypt/decrypt), and the Forwarding     *)
(* Core (s3 client: ForwardRequest, copyHeaders, isHopByHopHeader), the    *)
(* session token of the vault client, the S3 routes (object handlers,     *)
(* sidecar metadata records, listing), and the metadata service on its own *)
(* (Store, Get, FilterMetadataObjects and the JSON form of a record).      *)
(*                                                                         *)
(* Go strings are modelled as sequences of one-character strings, so that  *)
(* splitting, prefix tests, case folding and canonicalisation are computed *)
(* character by character, as the code and the Go library do.              *)
(***************************************************************************)
EXTENDS Integers, Sequences, FiniteSets, TLC

VARIABLES
    vclient,    \* vault.Client: [configured |-> c.client # nil, token |-> live session token]
    arnIn,      \* the pieces the ARN under test was assembled from
    arn,        \* the ARN string handed to ARNToVaultKey
    arnRes,     \* result of the last ARNToVaultKey call: [key, err], or NoCall
    resolved,   \* the (arn, transit key) pairs of the accepted resolutions so far
    rev,        \* which revision of the s3 client is linked
    endpoint,   \* s3 Client.endpoint
    inbound,    \* the http.Header handed to ForwardRequest (extractHeaders' result)
    inBody,     \* the body reader handed to ForwardRequest: [kind, len]
    query,      \* the query string handed to ForwardRequest
    outReq,     \* the outbound *http.Request as handed to httpClient.Do
    fwdRes,     \* what ForwardRequest returned: [resp, err]
    vimpl,      \* which implementation of the vault interface serves Encrypt/Decrypt
    data,       \* the byte sequence handed to Encrypt
    transitKey, \* the transit key handed to Encrypt
    encRes,     \* what Encrypt returned: [ciphertext, err]
    decRes,     \* what Decrypt returned: [data, err], and the key it was called with
    tokenFile,  \* the token file: [readable, content]
    vaultToken, \* the vaultToken argument of NewClient (explicit configuration value)
    envToken,   \* the VAULT_TOKEN environment variable
    ctor,       \* what NewClient returned, and Client.usingTokenFile
    watcher,    \* the watchTokenFile goroutine: [running, lastToken]
    ops,        \* the request-handling calls on the client, one record per caller
    pending,    \* where a token-file update is: "none", "written" or "woken"
    gwImpl,     \* which gateway serves the S3 routes: the handlers or the single-file proxy
    store,      \* the objects behind the gateway: path under the bucket -> stored object
    putKeys,    \* the keys whose stored primary was written by the gateway's PutObject
    gwReq,      \* the client request being answered: [op, key, arn, size]
    gwResp,     \* the response the client gets: [status, code, body]
    backendLog, \* the storage requests the handler made for gwReq, in order
    vaultCalls  \* how many Encrypt/Decrypt calls the handler made for gwReq

keyVars == <<vclient, arnIn, arn, arnRes, resolved>>

fwdVars == <<rev, endpoint, inbound, inBody, query, outReq, fwdRes>>

cryptoVars == <<vimpl, data, transitKey, encRes, decRes>>

tokenVars == <<tokenFile, vaultToken, envToken, ctor, watcher, ops, pending>>

gwVars == <<gwImpl, store, putKeys, gwReq, gwResp, backendLog, vaultCalls>>

vars == <<vclient, arnIn, arn, arnRes, resolved,
          rev, endpoint, inbound, inBody, query, outReq, fwdRes,
          vimpl, data, transitKey, encRes, decRes,
          tokenFile, vaultToken, envToken, ctor, watcher, ops, pending,
          gwImpl, store, putKeys, gwReq, gwResp, backendLog, vaultCalls>>

(***************************************************************************)
(* Strings                                                                 *)
(***************************************************************************)
EmptyStr == <<>>

\* All strings over the alphabet S of length 0..n.
StringsUpTo(S, n) == UNION {[1..k -> S] : k \in 0..n}

\* strings.HasPrefix
HasPrefix(s, p) == Len(s) >= Len(p) /\ SubSeq(s, 1, Len(p)) = p

\* Index of the first occurrence of the character c in s at or after i, else 0.
RECURSIVE IndexFrom(_, _, _)
IndexFrom(s, c, i) ==
    IF i > Len(s) THEN 0
    ELSE IF s[i] = c THEN i
    ELSE IndexFrom(s, c, i + 1)

\* strings.Split(s, c) for a one-character separator: always at least one part.
RECURSIVE Split(_, _)
Split(s, c) ==
    LET i == IndexFrom(s, c, 1)
    IN  IF i = 0 THEN <<s>>
        ELSE <<SubSeq(s, 1, i - 1)>> \o Split(SubSeq(s, i + 1, Len(s)), c)

\* Number of occurrences of the character c in s.
RECURSIVE CountChar(_, _)
CountChar(s, c) ==
    IF s = <<>> THEN 0
    ELSE (IF Head(s) = c THEN 1 ELSE 0) + CountChar(Tail(s), c)

Colon == <<":">>
Slash == <<"/">>
Underscore == <<"_">>

\* No outbound request has been built yet.
NoReq == [URL |-> <<>>, Host |-> <<>>, Header |-> <<>>, ContentLength |-> 0,
          built |-> FALSE]

\* ForwardRequest has not returned yet.
NoResult == [returned |-> FALSE, err |-> "none", StatusCode |-> 0, Body |-> <<>>,
             BodyReader |-> "none"]

\* The forwarding core takes no part in a specification of the key gateway.
ForwardingUnused ==
    /\ rev = "none" /\ endpoint = <<>> /\ inbound = <<>>
    /\ inBody = [kind |-> "nil", len |-> 0] /\ query = <<>>
    /\ outReq = NoReq /\ fwdRes = NoResult

\* Encrypt, Decrypt have not been called yet.
NoEncrypt == [called |-> FALSE, ciphertext |-> <<>>, err |-> "none"]

NoDecrypt == [called |-> FALSE, key |-> <<>>, data |-> <<>>, err |-> "none"]

\* Encryption takes no part in a specification of the other components.
CryptoUnused ==
    /\ vimpl = "none" /\ data = <<>> /\ transitKey = <<>>
    /\ encRes = NoEncrypt /\ decRes = NoDecrypt

\* os.ReadFile fails on the token file.
NoFile == [readable |-> FALSE, content |-> <<>>]

\* NewClient has not been called.
NoCtor == [done |-> FALSE, produced |-> FALSE, err |-> "none", usingTokenFile |-> FALSE]

NoWatcher == [running |-> FALSE, lastToken |-> <<>>]

\* The token lifecycle takes no part in a specification of the other components.
TokenUnused ==
    /\ tokenFile = NoFile /\ vaultToken = <<>> /\ envToken = <<>>
    /\ ctor = NoCtor /\ watcher = NoWatcher /\ ops = <<>> /\ pending = "none"

\* No client request has been answered.
NoGwReq == [op |-> "none", key |-> <<>>, arn |-> <<>>, size |-> 0]

NoGwResp == [status |-> 0, code |-> "none", body |-> "none"]

\* The S3 routes take no part in a specification of the other components.
GatewayUnused ==
    /\ gwImpl = "none" /\ store = <<>> /\ putKeys = {}
    /\ gwReq = NoGwReq /\ gwResp = NoGwResp /\ backendLog = <<>> /\ vaultCalls = 0

(***************************************************************************)
(* Key Gateway: ARNToVaultKey                                              *)
(***************************************************************************)
\* "arn:aws:kms:"
KmsPrefix == <<"a","r","n",":","a","w","s",":","k","m","s",":">>
\* "arn:aws:s3:"
S3Prefix == <<"a","r","n",":","a","w","s",":","s","3",":">>
\* "key"
KeyWord == <<"k","e","y">>
\* "alias"
AliasWord == <<"a","l","i","a","s">>

NoErr == "none"
ErrARNRequired == "KMS key ARN is required"
ErrARNFormat == "invalid KMS ARN format"
ErrARNParts == "invalid KMS ARN format, expected 6 parts"
ErrARNKeyFormat == "invalid KMS ARN key format, expected 'key/uuid'"
ErrARNMissing == "missing required ARN components (region/account/key)"

\* Every error ARNToVaultKey returns is the spec's InvalidARN.
InvalidARN == {ErrARNRequired, ErrARNFormat, ErrARNParts, ErrARNKeyFormat, ErrARNMissing}

\* fmt.Sprintf("%s_%s_%s", region, account, keyUUID)
SprintfKey(region, account, keyUUID) ==
    region \o Underscore \o account \o Underscore \o keyUUID

\* Mutant: the components joined in the wrong order.
ARNToVaultKey_swapped(a) ==
    LET parts == Split(a, ":")
    IN  IF Len(parts) # 6 THEN [key |-> EmptyStr, err |-> ErrARNParts]
        ELSE LET keyParts == Split(parts[6], "/")
             IN  IF Len(keyParts) # 2 THEN [key |-> EmptyStr, err |-> ErrARNKeyFormat]
                 ELSE [key |-> SprintfKey(parts[5], parts[4], keyParts[2]), err |-> NoErr]

\* Mutant: the key name is built before validation and returned with the error.
ARNToVaultKey_partial(a) ==
    IF a = EmptyStr THEN [key |-> EmptyStr, err |-> ErrARNRequired]
    ELSE IF ~HasPrefix(a, KmsPrefix) THEN [key |-> EmptyStr, err |-> ErrARNFormat]
    ELSE LET parts == Split(a, ":")
         IN  IF Len(parts) # 6 THEN [key |-> EmptyStr, err |-> ErrARNParts]
             ELSE LET region == parts[4]
                      account == parts[5]
                      keyParts == Split(parts[6], "/")
                  IN  IF Len(keyParts) # 2 \/ keyParts[1] # KeyWord
                      THEN [key |-> EmptyStr, err |-> ErrARNKeyFormat]
                      ELSE IF region = EmptyStr \/ account = EmptyStr \/ keyParts[2] = EmptyStr
                           THEN [key |-> SprintfKey(region, account, keyParts[2]),
                                 err |-> ErrARNMissing]
                           ELSE [key |-> SprintfKey(region, account, keyParts[2]),
                                 err |-> NoErr]

\* Client.ARNToVaultKey: the checks in the order of the code; parts is 1-based here,
\* so parts[4], parts[5], parts[6] are the code's parts[3], parts[4], parts[5].
ARNToVaultKey(a) ==
    IF a = EmptyStr THEN [key |-> EmptyStr, err |-> ErrARNRequired]
    ELSE IF ~HasPrefix(a, KmsPrefix) THEN [key |-> EmptyStr, err |-> ErrARNFormat]
    ELSE LET parts == Split(a, ":")
         IN  IF Len(parts) # 6 THEN [key |-> EmptyStr, err |-> ErrARNParts]
             ELSE LET region == parts[4]
                      account == parts[5]
                      keyPart == parts[6]
                      keyParts == Split(keyPart, "/")
                  IN  IF Len(keyParts) # 2 \/ keyParts[1] # KeyWord
                      THEN [key |-> EmptyStr, err |-> ErrARNKeyFormat]
                      ELSE LET keyUUID == keyParts[2]
                           IN  IF region = EmptyStr \/ account = EmptyStr \/ keyUUID = EmptyStr
                               THEN [key |-> EmptyStr, err |-> ErrARNMissing]
                               ELSE [key |-> SprintfKey(region, account, keyUUID),
                                     err |-> NoErr]

(***************************************************************************)
(* Inputs of the ARN specification                                         *)
(***************************************************************************)
\* Longest region, account and key-id segment drawn.
MaxSegLen == 1

\* Characters a segment is drawn from: a letter, and the three delimiters that
\* matter to the parser and to the key name.
SegChars == {"a", "_", ":", "/"}

Segments == StringsUpTo(SegChars, MaxSegLen)

ARNPrefixes == {KmsPrefix, S3Prefix, EmptyStr}

\* What follows account ":" - "key/", "alias/", or "key" with no slash.
ARNKeyWords == {KeyWord \o Slash, AliasWord \o Slash, KeyWord}

\* "full": prefix region:account:keyword uuid; "two": prefix region:account;
\* "one": prefix region.
ARNShapes == {"full", "two", "one"}

ARNInputs ==
    [prefix : ARNPrefixes, region : Segments, account : Segments,
     keyword : ARNKeyWords, uuid : Segments, shape : {"full"}]
    \cup [prefix : ARNPrefixes, region : Segments, account : Segments,
          keyword : {KeyWord \o Slash}, uuid : {EmptyStr}, shape : {"two"}]
    \cup [prefix : ARNPrefixes, region : Segments, account : {EmptyStr},
          keyword : {KeyWord \o Slash}, uuid : {EmptyStr}, shape : {"one"}]

Assemble(p) ==
    CASE p.shape = "full" ->
            p.prefix \o p.region \o Colon \o p.account \o Colon \o p.keyword \o p.uuid
      [] p.shape = "two" -> p.prefix \o p.region \o Colon \o p.account
      [] p.shape = "one" -> p.prefix \o p.region

NoCall == [key |-> EmptyStr, err |-> "not called"]

NilClient == [configured |-> FALSE, token |-> ""]
LiveClient == [configured |-> TRUE, token |-> "t0"]

InitARN ==
    /\ vclient \in {NilClient, LiveClient}
    /\ arnIn \in ARNInputs
    /\ arn = Assemble(arnIn)
    /\ arnRes = NoCall
    /\ resolved = {}
    /\ ForwardingUnused
    /\ CryptoUnused
    /\ TokenUnused /\ GatewayUnused

\* A call of Client.ARNToVaultKey(arn); the method touches no field of the client.
CallARNToVaultKey ==
    /\ arnRes' = ARNToVaultKey(arn)
    /\ UNCHANGED <<vclient, arnIn, arn, resolved, fwdVars, cryptoVars, tokenVars, gwVars>>

NextARN == CallARNToVaultKey

SpecARN == InitARN /\ [][NextARN]_vars

(***************************************************************************)
(* The transit keyspace: successive resolutions, as the PutObject handler  *)
(* makes them, one per request, for the ARN of the request's KMS header.   *)
(***************************************************************************)
\* Longest region and account segment of the keyspace inputs.
MaxKeyspaceSegLen == 2

\* Longest key-id segment of the keyspace inputs.
MaxKeyspaceUuidLen == 1

\* How many accepted resolutions are recorded.
MaxResolved == 2

KeyspaceChars == {"a", "_"}

KeyspaceSegments == StringsUpTo(KeyspaceChars, MaxKeyspaceSegLen)

KeyspaceInputs ==
    [prefix : {KmsPrefix}, region : KeyspaceSegments, account : KeyspaceSegments,
     keyword : {KeyWord \o Slash},
     uuid : StringsUpTo(KeyspaceChars, MaxKeyspaceUuidLen), shape : {"full"}]

InitKeyspace ==
    /\ vclient = LiveClient
    /\ arnIn \in KeyspaceInputs
    /\ arn = Assemble(arnIn)
    /\ arnRes = NoCall
    /\ resolved = {}
    /\ ForwardingUnused
    /\ CryptoUnused
    /\ TokenUnused /\ GatewayUnused

\* S3Handler.PutObject, key resolution step: the ARN of the request is resolved and,
\* when accepted, the object is addressed by the returned transit key name.
PutObjectResolveKey ==
    /\ Cardinality(resolved) < MaxResolved
    /\ LET r == ARNToVaultKey(arn)
       IN  /\ arnRes' = r
           /\ resolved' = IF r.err = NoErr
                          THEN resolved \cup {[arn |-> arn, key |-> r.key]}
                          ELSE resolved
    /\ UNCHANGED <<vclient, arnIn, arn, fwdVars, cryptoVars, tokenVars, gwVars>>

\* The next request arrives with its own KMS key ARN.
NextRequestARN ==
    /\ arnRes # NoCall
    /\ Cardinality(resolved) < MaxResolved
    /\ arnIn' \in KeyspaceInputs
    /\ arn' = Assemble(arnIn')
    /\ arnRes' = NoCall
    /\ UNCHANGED <<vclient, resolved, fwdVars, cryptoVars, tokenVars, gwVars>>

NextKeyspace == PutObjectResolveKey \/ NextRequestARN

SpecKeyspace == InitKeyspace /\ [][NextKeyspace]_vars

(***************************************************************************)
(* Claims about ARNToVaultKey                                              *)
(***************************************************************************)
HasChar(s, c) == \E i \in 1..Len(s) : s[i] = c

\* The input is arn:aws:kms:R:A:key/U with non-empty segments: R and A free of
\* colons, U free of colons and slashes.
WellFormedInput(p) ==
    /\ p.shape = "full"
    /\ p.prefix = KmsPrefix
    /\ p.keyword = KeyWord \o Slash
    /\ p.region # EmptyStr /\ ~HasChar(p.region, ":")
    /\ p.account # EmptyStr /\ ~HasChar(p.account, ":")
    /\ p.uuid # EmptyStr /\ ~HasChar(p.uuid, ":") /\ ~HasChar(p.uuid, "/")

\* C1: for every ARN arn:aws:kms:R:A:key/U with non-empty R, A and U, a call of
\* ARNToVaultKey returns exactly R_A_U and no error, whatever the state of the
\* client (nil or configured), and the call changes no field of the client.
C1_ValidARNMapsToName ==
    /\ [](arnRes # NoCall /\ WellFormedInput(arnIn)
            => arnRes = [key |-> arnIn.region \o Underscore \o arnIn.account
                                   \o Underscore \o arnIn.uuid,
                         err |-> NoErr])
    /\ [][vclient' = vclient]_vars

\* A valid ARN whose region holds an underscore was resolved on a nil client.
C1_Witness ==
    /\ arnRes # NoCall
    /\ WellFormedInput(arnIn)
    /\ arnIn.region = Underscore
    /\ vclient = NilClient

\* The part of s after its last colon (s itself when it has none).
RECURSIVE AfterLastColon(_)
AfterLastColon(s) ==
    LET i == IndexFrom(s, ":", 1)
    IN  IF i = 0 THEN s ELSE AfterLastColon(SubSeq(s, i + 1, Len(s)))

\* The malformed inputs the claim lists, read off the string itself.
MalformedEmpty(s) == s = EmptyStr
MalformedPrefix(s) == ~HasPrefix(s, KmsPrefix)
MalformedPartCount(s) == CountChar(s, ":") + 1 # 6
MalformedKeyPart(s) ==
    LET last == AfterLastColon(s)
    IN  ~(HasPrefix(last, KeyWord \o Slash) /\ CountChar(last, "/") = 1)
MalformedEmptyComponent(s) ==
    \/ AfterLastColon(s) = KeyWord \o Slash
    \/ \E i \in 1..Len(s) - 1 :
          /\ s[i] = ":" /\ s[i + 1] = ":"
          /\ CountChar(SubSeq(s, 1, i), ":") \in {3, 4}

Malformed(s) ==
    \/ MalformedEmpty(s)
    \/ MalformedPrefix(s)
    \/ MalformedPartCount(s)
    \/ MalformedKeyPart(s)
    \/ MalformedEmptyComponent(s)

\* C2: for every malformed input (empty, wrong prefix, part count other than 6,
\* last part not key/<uuid>, empty region, account or uuid) ARNToVaultKey returns
\* an InvalidARN error with an empty key name, and no error is ever returned
\* together with a non-empty key name.
C2_MalformedARNRejected ==
    arnRes # NoCall =>
        /\ Malformed(arn) => arnRes.err \in InvalidARN /\ arnRes.key = EmptyStr
        /\ arnRes.err # NoErr => arnRes.key = EmptyStr

\* An ARN with region and account but an empty key id was rejected.
C2_Witness ==
    /\ arnRes # NoCall
    /\ arnIn.shape = "full" /\ arnIn.prefix = KmsPrefix
    /\ arnIn.keyword = KeyWord \o Slash
    /\ arnIn.region = <<"a">> /\ arnIn.account = <<"a">> /\ arnIn.uuid = EmptyStr
    /\ Malformed(arn)
    /\ arnRes.err = ErrARNMissing

\* C3: any two distinct ARNs that ARNToVaultKey accepts are given distinct
\* transit key names.
C3_DistinctARNsDistinctKeys ==
    \A x \in resolved : \A y \in resolved : x.arn # y.arn => x.key # y.key

(***************************************************************************)
(* Forwarding Core: strings, header names, http.Header                     *)
(***************************************************************************)
UpperToLower ==
    ("A" :> "a") @@ ("B" :> "b") @@ ("C" :> "c") @@ ("D" :> "d") @@ ("E" :> "e") @@
    ("F" :> "f") @@ ("G" :> "g") @@ ("H" :> "h") @@ ("I" :> "i") @@ ("J" :> "j") @@
    ("K" :> "k") @@ ("L" :> "l") @@ ("M" :> "m") @@ ("N" :> "n") @@ ("O" :> "o") @@
    ("P" :> "p") @@ ("Q" :> "q") @@ ("R" :> "r") @@ ("S" :> "s") @@ ("T" :> "t") @@
    ("U" :> "u") @@ ("V" :> "v") @@ ("W" :> "w") @@ ("X" :> "x") @@ ("Y" :> "y") @@
    ("Z" :> "z")

LowerToUpper ==
    ("a" :> "A") @@ ("b" :> "B") @@ ("c" :> "C") @@ ("d" :> "D") @@ ("e" :> "E") @@
    ("f" :> "F") @@ ("g" :> "G") @@ ("h" :> "H") @@ ("i" :> "I") @@ ("j" :> "J") @@
    ("k" :> "K") @@ ("l" :> "L") @@ ("m" :> "M") @@ ("n" :> "N") @@ ("o" :> "O") @@
    ("p" :> "P") @@ ("q" :> "Q") @@ ("r" :> "R") @@ ("s" :> "S") @@ ("t" :> "T") @@
    ("u" :> "U") @@ ("v" :> "V") @@ ("w" :> "W") @@ ("x" :> "X") @@ ("y" :> "Y") @@
    ("z" :> "Z")

ToLowerChar(c) == IF c \in DOMAIN UpperToLower THEN UpperToLower[c] ELSE c
ToUpperChar(c) == IF c \in DOMAIN LowerToUpper THEN LowerToUpper[c] ELSE c

ToLower(s) == [i \in 1..Len(s) |-> ToLowerChar(s[i])]

\* strings.EqualFold, on ASCII
EqualFold(s, t) == ToLower(s) = ToLower(t)

\* textproto.CanonicalMIMEHeaderKey, as http.Header's Set, Get and Del apply it:
\* the first letter and every letter after a hyphen in upper case, the rest in lower.
CanonicalMIMEHeaderKey(s) ==
    [i \in 1..Len(s) |->
        IF i = 1 \/ s[i - 1] = "-" THEN ToUpperChar(s[i]) ELSE ToLowerChar(s[i])]

\* Index of the first occurrence of sub in s, 0 when there is none.
IndexOf(s, sub) ==
    LET hits == {i \in 1..(Len(s) - Len(sub) + 1) : SubSeq(s, i, i + Len(sub) - 1) = sub}
    IN  IF hits = {} THEN 0 ELSE CHOOSE i \in hits : \A j \in hits : i <= j

\* strings.Contains
Contains(s, sub) == IndexOf(s, sub) # 0

\* strings.Replace(s, old, new, 1)
ReplaceFirst(s, old, new) ==
    LET i == IndexOf(s, old)
    IN  IF i = 0 THEN s
        ELSE SubSeq(s, 1, i - 1) \o new \o SubSeq(s, i + Len(old), Len(s))

Digits ==
    ("0" :> 0) @@ ("1" :> 1) @@ ("2" :> 2) @@ ("3" :> 3) @@ ("4" :> 4) @@
    ("5" :> 5) @@ ("6" :> 6) @@ ("7" :> 7) @@ ("8" :> 8) @@ ("9" :> 9)

RECURSIVE DecimalValue(_)
DecimalValue(s) ==
    IF s = <<>> THEN 0
    ELSE DecimalValue(SubSeq(s, 1, Len(s) - 1)) * 10 + Digits[s[Len(s)]]

\* strconv.ParseInt(s, 10, 64) for values far below 2^63: an optional sign, then
\* one or more decimal digits; anything else is a syntax error.
ParseInt(s) ==
    LET signed == s # <<>> /\ s[1] \in {"+", "-"}
        body == IF signed THEN Tail(s) ELSE s
    IN  IF body = <<>> \/ \E i \in 1..Len(body) : body[i] \notin DOMAIN Digits
        THEN [ok |-> FALSE, n |-> 0]
        ELSE [ok |-> TRUE,
              n |-> IF signed /\ s[1] = "-" THEN 0 - DecimalValue(body)
                    ELSE DecimalValue(body)]

\* http.Header is map[string][]string: a function from names to value lists.
EmptyHeader == <<>>

HeaderAssign(h, k, vals) == [x \in (DOMAIN h) \cup {k} |-> IF x = k THEN vals ELSE h[x]]

HeaderRemove(h, k) == [x \in (DOMAIN h) \ {k} |-> h[x]]

\* Header.Set: the name is canonicalised, the values replaced by the one value.
HeaderSet(h, k, v) == HeaderAssign(h, CanonicalMIMEHeaderKey(k), <<v>>)

\* Header.Get: the first value under the canonicalised name, "" when there is none.
HeaderGet(h, k) ==
    LET c == CanonicalMIMEHeaderKey(k)
    IN  IF c \in DOMAIN h /\ h[c] # <<>> THEN h[c][1] ELSE EmptyStr

\* Header.Del: removes the entry under the canonicalised name only.
HeaderDel(h, k) == HeaderRemove(h, CanonicalMIMEHeaderKey(k))

(***************************************************************************)
(* Forwarding Core: the outbound request                                   *)
(*                                                                         *)
(* The repository holds three revisions of the s3 client:                  *)
(*   V1  src/internal/s3/client.go        (lines 14-176)                   *)
(*   V2  src/internal/logging/logger.go   (lines 190-456)                  *)
(*   V3  src/unnamed/part_001                                              *)
(* Each is modelled; rev says which one the build links.                   *)
(***************************************************************************)
RevV1 == "internal/s3/client.go"
RevV2 == "internal/logging/logger.go"
RevV3 == "unnamed/part_001"

Revisions == {RevV1, RevV2, RevV3}

HostName == <<"H", "o", "s", "t">>
ContentLengthName == <<"C", "o", "n", "t", "e", "n", "t", "-", "L", "e", "n", "g", "t", "h">>
CfVisitorName == <<"C", "f", "-", "V", "i", "s", "i", "t", "o", "r">>
XForwardedProtoName == <<"X", "-", "F", "o", "r", "w", "a", "r", "d", "e", "d", "-", "P", "r", "o", "t", "o">>
XForwardedSchemeName == <<"X", "-", "F", "o", "r", "w", "a", "r", "d", "e", "d", "-", "S", "c", "h", "e", "m", "e">>
XSchemeName == <<"X", "-", "S", "c", "h", "e", "m", "e">>

HttpScheme == <<"h", "t", "t", "p", ":", "/", "/">>
HttpsScheme == <<"h", "t", "t", "p", "s", ":", "/", "/">>
\* `"scheme":"https"`
HttpsMarker == <<"\"", "s", "c", "h", "e", "m", "e", "\"", ":", "\"", "h", "t", "t", "p", "s", "\"">>
HttpsValue == <<"h", "t", "t", "p", "s">>

\* The host of an absolute URL: what follows "://" up to the next "/" or "?".
URLHost(url) ==
    LET i == IndexOf(url, <<":", "/", "/">>)
        rest == IF i = 0 THEN url ELSE SubSeq(url, i + 3, Len(url))
        stops == {j \in 1..Len(rest) : rest[j] \in {"/", "?"}}
        stop == IF stops = {} THEN Len(rest) + 1
                ELSE CHOOSE j \in stops : \A k \in stops : j <= k
    IN  SubSeq(rest, 1, stop - 1)

\* http.NewRequest: Host from the URL, an empty header map, and ContentLength
\* known only for nil and for in-memory readers (bytes.Reader); 0 for any other reader.
NewRequest(fullURL, body) ==
    [URL |-> fullURL, Host |-> URLHost(fullURL), Header |-> EmptyHeader,
     ContentLength |-> IF body.kind = "bytes.Reader" THEN body.len ELSE 0,
     built |-> TRUE]

\* fullURL += "?" + string(queryString), when the query string is not empty
WithQuery(url, queryString) ==
    IF queryString # EmptyStr THEN url \o <<"?">> \o queryString ELSE url

\* ---- V1: src/internal/s3/client.go

hopByHopHeaders_V1 ==
    {<<"C", "o", "n", "n", "e", "c", "t", "i", "o", "n">>, <<"T", "r", "a", "n", "s", "f", "e", "r", "-", "E", "n", "c", "o", "d", "i", "n", "g">>, <<"U", "p", "g", "r", "a", "d", "e">>,
     <<"P", "r", "o", "x", "y", "-", "C", "o", "n", "n", "e", "c", "t", "i", "o", "n">>, <<"T", "E">>, <<"T", "r", "a", "i", "l", "e", "r">>, <<"K", "e", "e", "p", "-", "A", "l", "i", "v", "e">>}

isHopByHopHeader_V1(header) ==
    \E hopHeader \in hopByHopHeaders_V1 : header = hopHeader

\* The loop of copyHeaders over the keys in the order the map iteration yields them.
RECURSIVE copyLoop_V1(_, _, _, _)
copyLoop_V1(hdr, originalHost, headers, order) ==
    IF order = <<>> THEN [Header |-> hdr, originalHost |-> originalHost]
    ELSE LET key == Head(order)
             values == headers[key]
         IN  IF Len(values) = 0 THEN copyLoop_V1(hdr, originalHost, headers, Tail(order))
             ELSE LET value == values[1]
                      host == IF key = HostName THEN value ELSE originalHost
                  IN  IF isHopByHopHeader_V1(key)
                      THEN copyLoop_V1(hdr, host, headers, Tail(order))
                      ELSE copyLoop_V1(HeaderSet(hdr, key, value), host, headers, Tail(order))

copyHeaders_V1(req, headers, order) ==
    LET r == copyLoop_V1(req.Header, EmptyStr, headers, order)
    IN  IF r.originalHost # EmptyStr
        THEN [req EXCEPT !.Host = r.originalHost,
                         !.Header = HeaderSet(r.Header, HostName, r.originalHost)]
        ELSE [req EXCEPT !.Header = r.Header]

ForwardRequest_V1(ep, path, body, headers, queryString, order) ==
    LET fullURL == WithQuery(ep \o path, queryString)
    IN  copyHeaders_V1(NewRequest(fullURL, body), headers, order)

\* ---- V2: src/internal/logging/logger.go

hopByHopHeaders_V2 ==
    {<<"C", "o", "n", "n", "e", "c", "t", "i", "o", "n">>, <<"T", "r", "a", "n", "s", "f", "e", "r", "-", "E", "n", "c", "o", "d", "i", "n", "g">>, <<"U", "p", "g", "r", "a", "d", "e">>,
     <<"P", "r", "o", "x", "y", "-", "C", "o", "n", "n", "e", "c", "t", "i", "o", "n">>, <<"T", "E">>, <<"T", "r", "a", "i", "l", "e", "r">>, <<"K", "e", "e", "p", "-", "A", "l", "i", "v", "e">>,
     <<"X", "-", "F", "o", "r", "w", "a", "r", "d", "e", "d", "-", "P", "r", "o", "t", "o">>, <<"X", "-", "F", "o", "r", "w", "a", "r", "d", "e", "d", "-", "S", "c", "h", "e", "m", "e">>, <<"X", "-", "S", "c", "h", "e", "m", "e">>,
     <<"C", "f", "-", "V", "i", "s", "i", "t", "o", "r">>, <<"X", "-", "F", "o", "r", "w", "a", "r", "d", "e", "d", "-", "H", "o", "s", "t">>, <<"X", "-", "F", "o", "r", "w", "a", "r", "d", "e", "d", "-", "P", "o", "r", "t">>,
     <<"X", "-", "F", "o", "r", "w", "a", "r", "d", "e", "d", "-", "F", "o", "r">>, <<"X", "-", "R", "e", "a", "l", "-", "I", "p">>, <<"X", "-", "R", "e", "q", "u", "e", "s", "t", "-", "I", "d">>,
     <<"C", "f", "-", "C", "o", "n", "n", "e", "c", "t", "i", "n", "g", "-", "I", "p">>, <<"C", "f", "-", "I", "p", "c", "o", "u", "n", "t", "r", "y">>, <<"C", "f", "-", "R", "a", "y">>,
     <<"C", "d", "n", "-", "L", "o", "o", "p">>}

isHopByHopHeader_V2(header) ==
    \E hopHeader \in hopByHopHeaders_V2 : EqualFold(header, hopHeader)

RECURSIVE copyLoop_V2(_, _, _, _)
copyLoop_V2(hdr, originalHost, headers, order) ==
    IF order = <<>> THEN [Header |-> hdr, originalHost |-> originalHost]
    ELSE LET key == Head(order)
             values == headers[key]
         IN  IF Len(values) = 0 THEN copyLoop_V2(hdr, originalHost, headers, Tail(order))
             ELSE LET value == values[1]
                      host == IF key = HostName THEN value ELSE originalHost
                  IN  IF isHopByHopHeader_V2(key)
                      THEN copyLoop_V2(hdr, host, headers, Tail(order))
                      ELSE copyLoop_V2(HeaderSet(hdr, key, value), host, headers, Tail(order))

copyHeaders_V2(req, headers, order) ==
    LET r == copyLoop_V2(req.Header, EmptyStr, headers, order)
    IN  IF r.originalHost # EmptyStr
        THEN [req EXCEPT !.Host = r.originalHost,
                         !.Header = HeaderSet(r.Header, HostName, r.originalHost)]
        ELSE [req EXCEPT !.Header = r.Header]

\* originalScheme: Cf-Visitor decides when it is present and not empty;
\* X-Forwarded-Proto is consulted only otherwise.
originalScheme_V2(headers) ==
    LET cfVisitor == HeaderGet(headers, CfVisitorName)
    IN  IF cfVisitor # EmptyStr
        THEN (IF Contains(cfVisitor, HttpsMarker) THEN "https" ELSE "http")
        ELSE IF HeaderGet(headers, XForwardedProtoName) = HttpsValue THEN "https"
        ELSE "http"

fullURL_V2(ep, path, headers, queryString) ==
    WithQuery(
        IF originalScheme_V2(headers) = "https" /\ HasPrefix(ep, HttpScheme)
        THEN ReplaceFirst(ep, HttpScheme, HttpsScheme) \o path
        ELSE ep \o path,
        queryString)

ForwardRequest_V2(ep, path, body, headers, queryString, order) ==
    LET fullURL == fullURL_V2(ep, path, headers, queryString)
        req1 == copyHeaders_V2(NewRequest(fullURL, body), headers, order)
    IN  IF HasPrefix(fullURL, HttpsScheme)
        THEN [req1 EXCEPT !.Header = HeaderSet(req1.Header, XForwardedProtoName, HttpsValue)]
        ELSE req1

\* ---- V3: src/unnamed/part_001

hopByHopHeaders_V3 ==
    {<<"C", "o", "n", "n", "e", "c", "t", "i", "o", "n">>, <<"T", "r", "a", "n", "s", "f", "e", "r", "-", "E", "n", "c", "o", "d", "i", "n", "g">>, <<"U", "p", "g", "r", "a", "d", "e">>,
     <<"P", "r", "o", "x", "y", "-", "C", "o", "n", "n", "e", "c", "t", "i", "o", "n">>, <<"T", "E">>, <<"T", "r", "a", "i", "l", "e", "r">>, <<"K", "e", "e", "p", "-", "A", "l", "i", "v", "e">>,
     <<"C", "f", "-", "V", "i", "s", "i", "t", "o", "r">>, <<"X", "-", "F", "o", "r", "w", "a", "r", "d", "e", "d", "-", "H", "o", "s", "t">>, <<"X", "-", "F", "o", "r", "w", "a", "r", "d", "e", "d", "-", "P", "o", "r", "t">>,
     <<"X", "-", "F", "o", "r", "w", "a", "r", "d", "e", "d", "-", "F", "o", "r">>, <<"X", "-", "R", "e", "a", "l", "-", "I", "p">>, <<"X", "-", "R", "e", "q", "u", "e", "s", "t", "-", "I", "d">>,
     <<"C", "f", "-", "C", "o", "n", "n", "e", "c", "t", "i", "n", "g", "-", "I", "p">>, <<"C", "f", "-", "I", "p", "c", "o", "u", "n", "t", "r", "y">>, <<"C", "f", "-", "R", "a", "y">>,
     <<"C", "d", "n", "-", "L", "o", "o", "p">>}

isHopByHopHeader_V3(header) ==
    \E hopHeader \in hopByHopHeaders_V3 : EqualFold(header, hopHeader)

RECURSIVE copyLoop_V3(_, _, _, _)
copyLoop_V3(hdr, originalHost, headers, order) ==
    IF order = <<>> THEN [Header |-> hdr, originalHost |-> originalHost]
    ELSE LET key == Head(order)
             values == headers[key]
         IN  IF Len(values) = 0 THEN copyLoop_V3(hdr, originalHost, headers, Tail(order))
             ELSE LET value == values[1]
                      host == IF EqualFold(key, <<"h", "o", "s", "t">>) THEN value ELSE originalHost
                  IN  IF isHopByHopHeader_V3(key)
                      THEN copyLoop_V3(hdr, host, headers, Tail(order))
                      ELSE copyLoop_V3(HeaderAssign(hdr, key, <<value>>), host, headers,
                                       Tail(order))

\* req.Header[key] = []string{value}: the name is kept as it came.
copyHeaders_V3(req, headers, order) ==
    LET r == copyLoop_V3(req.Header, EmptyStr, headers, order)
    IN  IF r.originalHost # EmptyStr
        THEN [req EXCEPT !.Host = r.originalHost,
                         !.Header = HeaderAssign(r.Header, HostName, <<r.originalHost>>)]
        ELSE [req EXCEPT !.Header = r.Header]

\* headers.Get("Content-Length") finds the value under the canonical name only.
preserveContentLength_V3(req, headers) ==
    LET originalContentLength == HeaderGet(headers, ContentLengthName)
    IN  IF originalContentLength # EmptyStr
        THEN LET parsed == ParseInt(originalContentLength)
                 h == HeaderSet(req.Header, ContentLengthName, originalContentLength)
             IN  IF parsed.ok
                 THEN [req EXCEPT !.Header = h, !.ContentLength = parsed.n]
                 ELSE [req EXCEPT !.Header = h]
        ELSE req

ForwardRequest_V3(ep, path, body, headers, queryString, order) ==
    LET fullURL == WithQuery(ep \o path, queryString)
        req1 == copyHeaders_V3(NewRequest(fullURL, body), headers, order)
        req2 == preserveContentLength_V3(req1, headers)
    IN  [req2 EXCEPT !.Header =
            HeaderDel(HeaderDel(HeaderDel(@, XForwardedProtoName), XForwardedSchemeName),
                      XSchemeName)]

(***************************************************************************)
(* Forwarding Core: the response                                           *)
(***************************************************************************)
ErrForward == "failed to forward request to S3"

\* What httpClient.Do can yield: a transport failure, or a response whose body
\* can (readErr = FALSE) or cannot be read to its end.
BackendOutcomes ==
    {[kind |-> "unreachable", StatusCode |-> 0, Body |-> <<>>, readErr |-> FALSE],
     [kind |-> "response", StatusCode |-> 200, Body |-> <<"x">>, readErr |-> FALSE],
     [kind |-> "response", StatusCode |-> 404, Body |-> <<"x">>, readErr |-> FALSE],
     [kind |-> "response", StatusCode |-> 500, Body |-> <<"x">>, readErr |-> TRUE]}

\* Mutant: the body of an error response is left on the connection.
ReceiveResponse_noBuffer(out) ==
    IF out.kind = "unreachable"
    THEN [returned |-> TRUE, err |-> ErrForward, StatusCode |-> 0, Body |-> <<>>,
          BodyReader |-> "none"]
    ELSE [returned |-> TRUE, err |-> NoErr, StatusCode |-> out.StatusCode,
          Body |-> out.Body,
          BodyReader |-> IF out.readErr THEN "failing stream" ELSE "stream"]

\* The tail of ForwardRequest, the same in the three revisions: a transport failure
\* is an error; a response with status >= 400 has its body read and, when the read
\* succeeds, replaced by a reader over the bytes read; other responses keep the
\* stream of the connection.
ReceiveResponse(out) ==
    IF out.kind = "unreachable"
    THEN [returned |-> TRUE, err |-> ErrForward, StatusCode |-> 0, Body |-> <<>>,
          BodyReader |-> "none"]
    ELSE [returned |-> TRUE, err |-> NoErr, StatusCode |-> out.StatusCode,
          Body |-> out.Body,
          BodyReader |-> IF out.StatusCode >= 400
                         THEN (IF out.readErr THEN "failed stream" ELSE "memory")
                         ELSE (IF out.readErr THEN "failing stream" ELSE "stream")]

(***************************************************************************)
(* Forwarding Core: inputs and actions                                     *)
(***************************************************************************)
\* How many header lines an inbound request carries.
MaxHeaders == 2

\* S3Handler.extractHeaders: every header line is appended under its name exactly
\* as the client sent it.
RECURSIVE extractHeaders(_)
extractHeaders(lines) ==
    IF lines = <<>> THEN EmptyHeader
    ELSE LET h == extractHeaders(SubSeq(lines, 1, Len(lines) - 1))
             l == lines[Len(lines)]
         IN  HeaderAssign(h, l.key,
                          (IF l.key \in DOMAIN h THEN h[l.key] ELSE <<>>) \o <<l.value>>)

HeaderLine(k, v) == [key |-> k, value |-> v]

\* The header lines a client request is drawn from: signed headers, Host and
\* Content-Length, hop-by-hop and edge headers, in more than one casing.
HeaderLines ==
    {HeaderLine(<<"X", "-", "A", "m", "z", "-", "D", "a", "t", "e">>, <<"d", "1">>),
     HeaderLine(<<"X", "-", "A", "m", "z", "-", "D", "a", "t", "e">>, <<"d", "2">>),
     HeaderLine(<<"x", "-", "a", "m", "z", "-", "d", "a", "t", "e">>, <<"d", "1">>),
     HeaderLine(<<"H", "o", "s", "t">>, <<"e", "x", "t">>), HeaderLine(<<"h", "o", "s", "t">>, <<"e", "x", "t">>),
     HeaderLine(<<"C", "o", "n", "t", "e", "n", "t", "-", "L", "e", "n", "g", "t", "h">>, <<"1", "0">>), HeaderLine(<<"c", "o", "n", "t", "e", "n", "t", "-", "l", "e", "n", "g", "t", "h">>, <<"1", "0">>),
     HeaderLine(<<"C", "o", "n", "n", "e", "c", "t", "i", "o", "n">>, <<"c", "l", "o", "s", "e">>), HeaderLine(<<"c", "o", "n", "n", "e", "c", "t", "i", "o", "n">>, <<"c", "l", "o", "s", "e">>),
     HeaderLine(<<"C", "f", "-", "V", "i", "s", "i", "t", "o", "r">>, <<"{", "\"", "s", "c", "h", "e", "m", "e", "\"", ":", "\"", "h", "t", "t", "p", "s", "\"", "}">>),
     HeaderLine(<<"C", "f", "-", "V", "i", "s", "i", "t", "o", "r">>, <<"{", "\"", "s", "c", "h", "e", "m", "e", "\"", ":", "\"", "h", "t", "t", "p", "\"", "}">>),
     HeaderLine(<<"X", "-", "F", "o", "r", "w", "a", "r", "d", "e", "d", "-", "P", "r", "o", "t", "o">>, <<"h", "t", "t", "p", "s">>),
     HeaderLine(<<"x", "-", "f", "o", "r", "w", "a", "r", "d", "e", "d", "-", "p", "r", "o", "t", "o">>, <<"h", "t", "t", "p", "s">>),
     HeaderLine(<<"X", "-", "F", "o", "r", "w", "a", "r", "d", "e", "d", "-", "S", "e", "r", "v", "e", "r">>, <<"e", "d", "g", "e">>)}

InboundHeaders ==
    {extractHeaders(lines) : lines \in UNION {[1..n -> HeaderLines] : n \in 0..MaxHeaders}}

Endpoints == {<<"h", "t", "t", "p", ":", "/", "/", "m", "i", "n", "i", "o">>, <<"h", "t", "t", "p", "s", ":", "/", "/", "m", "i", "n", "i", "o">>}

ObjectPath == <<"/", "b", "/", "k">>

QueryStrings == {EmptyStr, <<"x", "=", "1">>}

\* nil (GET, HEAD, DELETE), an in-memory reader (PutObject's bytes.NewReader), or
\* a reader whose length http.NewRequest cannot tell.
Bodies == {[kind |-> "nil", len |-> 0], [kind |-> "bytes.Reader", len |-> 10],
           [kind |-> "stream", len |-> 10]}

\* The orders in which a range over the map can yield its keys.
Orders(h) ==
    {o \in [1..Cardinality(DOMAIN h) -> DOMAIN h] :
        \A i, j \in 1..Cardinality(DOMAIN h) : i # j => o[i] # o[j]}

InitForward ==
    /\ vclient = LiveClient
    /\ arnIn = [shape |-> "none"] /\ arn = EmptyStr /\ arnRes = NoCall /\ resolved = {}
    /\ rev \in Revisions
    /\ endpoint \in Endpoints
    /\ inbound \in InboundHeaders
    /\ inBody \in Bodies
    /\ query \in QueryStrings
    /\ outReq = NoReq
    /\ fwdRes = NoResult
    /\ CryptoUnused
    /\ TokenUnused /\ GatewayUnused

ForwardRequestV1 ==
    /\ rev = RevV1 /\ ~outReq.built
    /\ \E order \in Orders(inbound) :
          outReq' = ForwardRequest_V1(endpoint, ObjectPath, inBody, inbound, query, order)
    /\ \E out \in BackendOutcomes : fwdRes' = ReceiveResponse(out)
    /\ UNCHANGED <<keyVars, rev, endpoint, inbound, inBody, query, cryptoVars, tokenVars, gwVars>>

ForwardRequestV2 ==
    /\ rev = RevV2 /\ ~outReq.built
    /\ \E order \in Orders(inbound) :
          outReq' = ForwardRequest_V2(endpoint, ObjectPath, inBody, inbound, query, order)
    /\ \E out \in BackendOutcomes : fwdRes' = ReceiveResponse(out)
    /\ UNCHANGED <<keyVars, rev, endpoint, inbound, inBody, query, cryptoVars, tokenVars, gwVars>>

ForwardRequestV3 ==
    /\ rev = RevV3 /\ ~outReq.built
    /\ \E order \in Orders(inbound) :
          outReq' = ForwardRequest_V3(endpoint, ObjectPath, inBody, inbound, query, order)
    /\ \E out \in BackendOutcomes : fwdRes' = ReceiveResponse(out)
    /\ UNCHANGED <<keyVars, rev, endpoint, inbound, inBody, query, cryptoVars, tokenVars, gwVars>>

NextForward == ForwardRequestV1 \/ ForwardRequestV2 \/ ForwardRequestV3

SpecForward == InitForward /\ [][NextForward]_vars

(***************************************************************************)
(* Forwarding Core: properties                                             *)
(***************************************************************************)
\* The deny-list as the specification words it: eleven names and the two
\* prefixes, all compared without regard to case.
DenyListedNames ==
    {<<"c", "o", "n", "n", "e", "c", "t", "i", "o", "n">>, <<"t", "r", "a", "n", "s", "f", "e", "r", "-", "e", "n", "c", "o", "d", "i", "n", "g">>, <<"u", "p", "g", "r", "a", "d", "e">>, <<"p", "r", "o", "x", "y", "-", "c", "o", "n", "n", "e", "c", "t", "i", "o", "n">>,
     <<"t", "e">>, <<"t", "r", "a", "i", "l", "e", "r">>, <<"k", "e", "e", "p", "-", "a", "l", "i", "v", "e">>, <<"c", "f", "-", "v", "i", "s", "i", "t", "o", "r">>, <<"x", "-", "r", "e", "a", "l", "-", "i", "p">>,
     <<"x", "-", "r", "e", "q", "u", "e", "s", "t", "-", "i", "d">>, <<"c", "d", "n", "-", "l", "o", "o", "p">>}

DenyListed(name) ==
    \/ ToLower(name) \in DenyListedNames
    \/ HasPrefix(ToLower(name), <<"x", "-", "f", "o", "r", "w", "a", "r", "d", "e", "d", "-">>)
    \/ HasPrefix(ToLower(name), <<"c", "f", "-">>)

SchemeHeaderNames == {<<"x", "-", "f", "o", "r", "w", "a", "r", "d", "e", "d", "-", "p", "r", "o", "t", "o">>, <<"x", "-", "f", "o", "r", "w", "a", "r", "d", "e", "d", "-", "s", "c", "h", "e", "m", "e">>, <<"x", "-", "s", "c", "h", "e", "m", "e">>}

\* ForwardRequest has run on the inbound request.
Forwarded == outReq.built

\* C4: every inbound header that is not on the deny-list appears on the outbound
\* request under exactly the name the client sent, byte for byte.
C4_HeaderNameCasePreserved ==
    Forwarded => \A k \in DOMAIN inbound : ~DenyListed(k) => k \in DOMAIN outReq.Header

\* C5: when the inbound headers hold a Host header, in any casing, with a non-empty
\* value h, the effective host and the Host header of the outbound request are h.
C5_HostOverride ==
    Forwarded =>
        \A k \in DOMAIN inbound :
            (EqualFold(k, HostName) /\ inbound[k][1] # EmptyStr) =>
                /\ outReq.Host = inbound[k][1]
                /\ HostName \in DOMAIN outReq.Header
                /\ outReq.Header[HostName] = <<inbound[k][1]>>

\* C6: the outbound request holds no header whose name is on the deny-list.
C6_NoDenyListedHeaderForwarded ==
    Forwarded => \A k \in DOMAIN outReq.Header : ~DenyListed(k)

\* C7: the outbound request holds none of X-Forwarded-Proto, X-Forwarded-Scheme
\* and X-Scheme, in any casing.
C7_NoSchemeHeaderForwarded ==
    Forwarded => \A k \in DOMAIN outReq.Header : ToLower(k) \notin SchemeHeaderNames

\* C8: when the inbound headers hold a Content-Length header, in any casing, with a
\* numeric value n, the outbound request has a Content-Length header of that value
\* and its ContentLength field is n, whatever the kind of the body.
C8_ContentLengthPreserved ==
    Forwarded =>
        \A k \in DOMAIN inbound :
            (EqualFold(k, ContentLengthName) /\ ParseInt(inbound[k][1]).ok) =>
                /\ \E o \in DOMAIN outReq.Header :
                      EqualFold(o, ContentLengthName) /\ outReq.Header[o] = <<inbound[k][1]>>
                /\ outReq.ContentLength = ParseInt(inbound[k][1]).n

\* The scheme decision as the specification words it: https exactly when the
\* CDN-visitor header holds the https marker or the forwarded-protocol header is
\* https.
EffectiveSchemeHttps(headers) ==
    \/ Contains(HeaderGet(headers, CfVisitorName), HttpsMarker)
    \/ HeaderGet(headers, XForwardedProtoName) = HttpsValue

\* C9: the outbound URL is the endpoint with its scheme rewritten to https, plus
\* path and query, exactly when the effective scheme is https and the endpoint is
\* plain http; otherwise it is endpoint + path (+ ?query).
C9_SchemeDecision ==
    Forwarded =>
        outReq.URL =
            WithQuery(IF EffectiveSchemeHttps(inbound) /\ HasPrefix(endpoint, HttpScheme)
                      THEN ReplaceFirst(endpoint, HttpScheme, HttpsScheme) \o ObjectPath
                      ELSE endpoint \o ObjectPath,
                      query)

C29_ForwardedIsInboundMinusDenyList ==
    Forwarded =>
        /\ \A k \in DOMAIN inbound :
              (~DenyListed(k) /\ ~EqualFold(k, HostName) /\ ~EqualFold(k, ContentLengthName))
                 => (k \in DOMAIN outReq.Header /\ outReq.Header[k] = inbound[k])
        /\ \A k \in DOMAIN outReq.Header :
              k \in DOMAIN inbound \cup {HostName, ContentLengthName}

(***************************************************************************)
(* Key Gateway: Encrypt and Decrypt                                        *)
(***************************************************************************)
\* base64.StdEncoding: the alphabet, 1-based here, and the padding character.
encodeStd ==
    <<"A", "B", "C", "D", "E", "F", "G", "H", "I", "J", "K", "L", "M", "N", "O", "P",
      "Q", "R", "S", "T", "U", "V", "W", "X", "Y", "Z", "a", "b", "c", "d", "e", "f",
      "g", "h", "i", "j", "k", "l", "m", "n", "o", "p", "q", "r", "s", "t", "u", "v",
      "w", "x", "y", "z", "0", "1", "2", "3", "4", "5", "6", "7", "8", "9", "+", "/">>

StdPadding == "="

\* The four characters of one group of one to three bytes.
EncodeGroup(g) ==
    LET b1 == g[1]
        b2 == IF Len(g) >= 2 THEN g[2] ELSE 0
        b3 == IF Len(g) >= 3 THEN g[3] ELSE 0
        val == b1 * 65536 + b2 * 256 + b3
        c1 == encodeStd[(val \div 262144) + 1]
        c2 == encodeStd[((val \div 4096) % 64) + 1]
        c3 == encodeStd[((val \div 64) % 64) + 1]
        c4 == encodeStd[(val % 64) + 1]
    IN  IF Len(g) = 1 THEN <<c1, c2, StdPadding, StdPadding>>
        ELSE IF Len(g) = 2 THEN <<c1, c2, c3, StdPadding>>
        ELSE <<c1, c2, c3, c4>>

RECURSIVE EncodeToString(_)
EncodeToString(src) ==
    IF src = <<>> THEN EmptyStr
    ELSE IF Len(src) <= 3 THEN EncodeGroup(src)
    ELSE EncodeGroup(SubSeq(src, 1, 3)) \o EncodeToString(SubSeq(src, 4, Len(src)))

\* The 6-bit value of an alphabet character; -1 for any other character.
DecodeChar(c) ==
    IF \E i \in 1..64 : encodeStd[i] = c
    THEN (CHOOSE i \in 1..64 : encodeStd[i] = c) - 1
    ELSE -1

\* One quantum of four characters: [ok, bytes]. Padding is accepted in the last
\* one or two places only.
DecodeQuantum(q) ==
    LET v1 == DecodeChar(q[1])
        v2 == DecodeChar(q[2])
        v3 == DecodeChar(q[3])
        v4 == DecodeChar(q[4])
    IN  IF v1 < 0 \/ v2 < 0 THEN [ok |-> FALSE, bytes |-> <<>>]
        ELSE IF q[3] = StdPadding /\ q[4] = StdPadding
        THEN [ok |-> TRUE, bytes |-> <<(v1 * 4 + v2 \div 16) % 256>>]
        ELSE IF v3 < 0 THEN [ok |-> FALSE, bytes |-> <<>>]
        ELSE IF q[4] = StdPadding
        THEN [ok |-> TRUE,
              bytes |-> <<(v1 * 4 + v2 \div 16) % 256, (v2 * 16 + v3 \div 4) % 256>>]
        ELSE IF v4 < 0 THEN [ok |-> FALSE, bytes |-> <<>>]
        ELSE [ok |-> TRUE,
              bytes |-> <<(v1 * 4 + v2 \div 16) % 256, (v2 * 16 + v3 \div 4) % 256,
                          (v3 * 64 + v4) % 256>>]

\* base64.StdEncoding.DecodeString: [ok, bytes]; a padded quantum ends the input.
RECURSIVE DecodeString(_)
DecodeString(s) ==
    IF s = EmptyStr THEN [ok |-> TRUE, bytes |-> <<>>]
    ELSE IF Len(s) < 4 THEN [ok |-> FALSE, bytes |-> <<>>]
    ELSE LET q == DecodeQuantum(SubSeq(s, 1, 4))
             rest == SubSeq(s, 5, Len(s))
         IN  IF ~q.ok THEN q
             ELSE IF s[4] = StdPadding
             THEN (IF rest = EmptyStr THEN q ELSE [ok |-> FALSE, bytes |-> <<>>])
             ELSE LET r == DecodeString(rest)
                  IN  IF r.ok THEN [ok |-> TRUE, bytes |-> q.bytes \o r.bytes] ELSE r

ErrNotConfigured == "vault client not configured"
ErrEncryptFailed == "vault encryption failed"
ErrDecryptFailed == "vault decryption failed"
ErrDecodeFailed == "failed to decode decrypted data"

\* The transit engine behind Logical().Write. transit/encrypt seals the plaintext
\* under the named key; transit/decrypt opens what was sealed under that key and
\* refuses anything else.
TransitVersion == <<"v", "a", "u", "l", "t", ":", "v", "1", ":">>

TransitEncrypt(key, plaintext) == TransitVersion \o key \o Colon \o plaintext

TransitDecrypt(key, ciphertext) ==
    LET seal == TransitVersion \o key \o Colon
    IN  IF HasPrefix(ciphertext, seal)
        THEN [ok |-> TRUE, plaintext |-> SubSeq(ciphertext, Len(seal) + 1, Len(ciphertext))]
        ELSE [ok |-> FALSE, plaintext |-> EmptyStr]

\* Client.Encrypt; up tells whether the write reaches the engine.
Encrypt(c, d, key, up) ==
    IF ~c.configured THEN [called |-> TRUE, ciphertext |-> EmptyStr, err |-> ErrNotConfigured]
    ELSE LET plaintext == EncodeToString(d)
         IN  IF ~up
             THEN [called |-> TRUE, ciphertext |-> EmptyStr, err |-> ErrEncryptFailed]
             ELSE [called |-> TRUE, ciphertext |-> TransitEncrypt(key, plaintext),
                   err |-> NoErr]

\* Client.Decrypt.
Decrypt(c, ciphertext, key, up) ==
    IF ~c.configured
    THEN [called |-> TRUE, key |-> key, data |-> <<>>, err |-> ErrNotConfigured]
    ELSE LET resp == TransitDecrypt(key, ciphertext)
         IN  IF ~up \/ ~resp.ok
             THEN [called |-> TRUE, key |-> key, data |-> <<>>, err |-> ErrDecryptFailed]
             ELSE LET decoded == DecodeString(resp.plaintext)
                  IN  IF ~decoded.ok
                      THEN [called |-> TRUE, key |-> key, data |-> <<>>,
                            err |-> ErrDecodeFailed]
                      ELSE [called |-> TRUE, key |-> key, data |-> decoded.bytes,
                            err |-> NoErr]

\* The default behaviours NewMockVaultClient registers.
MockPrefix == <<"v", "a", "u", "l", "t", ":", "v", "1", ":", "m", "o", "c", "k", "-">>

MockPrefixLen == 14

\* []byte("decrypted-data")
MockFallback == <<100, 101, 99, 114, 121, 112, 116, 101, 100, 45, 100, 97, 116, 97>>

MockEncrypt(d, key) ==
    [called |-> TRUE, ciphertext |-> MockPrefix \o EncodeToString(d), err |-> NoErr]

MockDecrypt(ciphertext, key) ==
    LET decoded == IF Len(ciphertext) > MockPrefixLen
                      /\ SubSeq(ciphertext, 1, MockPrefixLen) = MockPrefix
                   THEN DecodeString(SubSeq(ciphertext, MockPrefixLen + 1, Len(ciphertext)))
                   ELSE [ok |-> FALSE, bytes |-> <<>>]
    IN  [called |-> TRUE, key |-> key,
         data |-> IF decoded.ok THEN decoded.bytes ELSE MockFallback, err |-> NoErr]

\* Longest byte sequence encrypted.
MaxDataLen == 3

ByteValues == {0, 97, 255}

DataInputs == UNION {[1..n -> ByteValues] : n \in 0..MaxDataLen}

TransitKeys == {<<"r", "_", "a", "_", "u">>, <<"r", "_", "a", "_", "v">>}

ImplClient == "vault.Client"
ImplMock == "mocks.VaultClient"

InitCrypto ==
    /\ vclient \in {NilClient, LiveClient}
    /\ arnIn = [shape |-> "none"] /\ arn = EmptyStr /\ arnRes = NoCall /\ resolved = {}
    /\ ForwardingUnused
    /\ TokenUnused /\ GatewayUnused
    /\ vimpl \in {ImplClient, ImplMock}
    /\ data \in DataInputs
    /\ transitKey \in TransitKeys
    /\ encRes = NoEncrypt
    /\ decRes = NoDecrypt

ClientEncrypt ==
    /\ vimpl = ImplClient /\ ~encRes.called
    /\ \E up \in BOOLEAN : encRes' = Encrypt(vclient, data, transitKey, up)
    /\ UNCHANGED <<keyVars, fwdVars, tokenVars, gwVars, vimpl, data, transitKey, decRes>>

ClientDecrypt ==
    /\ vimpl = ImplClient /\ encRes.called /\ encRes.err = NoErr /\ ~decRes.called
    /\ \E key \in TransitKeys, up \in BOOLEAN :
          decRes' = Decrypt(vclient, encRes.ciphertext, key, up)
    /\ UNCHANGED <<keyVars, fwdVars, tokenVars, gwVars, vimpl, data, transitKey, encRes>>

MockClientEncrypt ==
    /\ vimpl = ImplMock /\ ~encRes.called
    /\ encRes' = MockEncrypt(data, transitKey)
    /\ UNCHANGED <<keyVars, fwdVars, tokenVars, gwVars, vimpl, data, transitKey, decRes>>

MockClientDecrypt ==
    /\ vimpl = ImplMock /\ encRes.called /\ encRes.err = NoErr /\ ~decRes.called
    /\ \E key \in TransitKeys : decRes' = MockDecrypt(encRes.ciphertext, key)
    /\ UNCHANGED <<keyVars, fwdVars, tokenVars, gwVars, vimpl, data, transitKey, encRes>>

NextCrypto == ClientEncrypt \/ ClientDecrypt \/ MockClientEncrypt \/ MockClientDecrypt

SpecCrypto == InitCrypto /\ [][NextCrypto]_vars

\* Decrypt was called under the key the data was encrypted under, and the call
\* got through to the engine.
RoundTripServed ==
    /\ decRes.called
    /\ decRes.key = transitKey
    /\ decRes.err \notin {ErrNotConfigured, ErrDecryptFailed}

WhiteSpace == {" ", "\n", "\t", "\r"}

RECURSIVE TrimLeft(_)
TrimLeft(s) ==
    IF s # <<>> /\ Head(s) \in WhiteSpace THEN TrimLeft(Tail(s)) ELSE s

RECURSIVE TrimRight(_)
TrimRight(s) ==
    IF s # <<>> /\ s[Len(s)] \in WhiteSpace THEN TrimRight(SubSeq(s, 1, Len(s) - 1)) ELSE s

\* strings.TrimSpace
TrimSpace(s) == TrimRight(TrimLeft(s))

ErrCreateClient == "failed to create vault client"
ErrSetToken == "failed to set vault token"
ErrHealth == "vault health request failed"

\* Client.setToken: the token file first, then the vaultToken argument, then the
\* VAULT_TOKEN environment variable. [token, usingTokenFile, ok]
setToken_noFile(file, vt, env) ==
    IF vt # EmptyStr THEN [token |-> vt, usingTokenFile |-> FALSE, ok |-> TRUE]
    ELSE IF env # EmptyStr THEN [token |-> env, usingTokenFile |-> FALSE, ok |-> TRUE]
    ELSE [token |-> EmptyStr, usingTokenFile |-> FALSE, ok |-> FALSE]

setToken(file, vt, env) ==
    IF file.readable /\ TrimSpace(file.content) # EmptyStr
    THEN [token |-> TrimSpace(file.content), usingTokenFile |-> TRUE, ok |-> TRUE]
    ELSE IF vt # EmptyStr THEN [token |-> vt, usingTokenFile |-> FALSE, ok |-> TRUE]
    ELSE IF env # EmptyStr THEN [token |-> env, usingTokenFile |-> FALSE, ok |-> TRUE]
    ELSE [token |-> EmptyStr, usingTokenFile |-> FALSE, ok |-> FALSE]

VaultAddr == <<"h", "t", "t", "p", ":", "/", "/", "v", "a", "u", "l", "t">>

\* Client.Address
Address(c) == IF ~c.configured THEN EmptyStr ELSE VaultAddr

\* Client.HealthCheck; up tells whether Sys().Health() gets its answer.
HealthCheck_noGuard(c, up) == IF ~up THEN ErrHealth ELSE NoErr

HealthCheck(c, up) ==
    IF ~c.configured THEN ErrNotConfigured
    ELSE IF ~up THEN ErrHealth
    ELSE NoErr

\* The condition under which the watcher applies what it read from the file.
watcherApplies_never(newToken, lastToken) == FALSE

watcherApplies_anyContent(newToken, lastToken) == newToken # lastToken

watcherApplies_stale(newToken, lastToken) == newToken # EmptyStr /\ lastToken = EmptyStr

watcherApplies(newToken, lastToken) == newToken # EmptyStr /\ newToken # lastToken

\* Mutant: the watcher is started whatever the source of the startup token.
startsWatcher_always(usingTokenFile) == TRUE

\* NewClient: "if client.usingTokenFile { go client.watchTokenFile() }"
startsWatcher(usingTokenFile) == usingTokenFile

\* How many callers use the client at the same time, how often the token file is
\* rewritten, how often the watcher's ticker fires.
MaxCallers == 1
MaxWrites == 2
MaxWakes == 2

FileWith(content) == [readable |-> TRUE, content |-> content]

FileContents == {NoFile, FileWith(<<"\n">>), FileWith(<<"t", "0", "\n">>),
                 FileWith(<<" ", "t", "1">>)}

ConfigTokens == {EmptyStr, <<"c", "0">>}

EnvTokens == {EmptyStr, <<"e", "0">>}

\* The tokens the secret-management service accepts: every token a source can hold.
ValidTokens ==
    ({TrimSpace(f.content) : f \in FileContents} \cup ConfigTokens \cup EnvTokens)
        \ {EmptyStr}

OpKinds == {"Encrypt", "Decrypt", "HealthCheck", "Address"}

SampleData == <<97>>

SampleKey == <<"r", "_", "a", "_", "u">>

IdleOp == [pc |-> "idle", kind |-> "none", client |-> NilClient, contacted |-> FALSE,
           reached |-> FALSE, err |-> "none", value |-> EmptyStr]

\* `client := &Client{}`, as the unit tests build it: no underlying session.
BareClient == [done |-> TRUE, produced |-> TRUE, err |-> "none", usingTokenFile |-> FALSE,
               via |-> "&Client{}"]

NotConstructed == [done |-> FALSE, produced |-> FALSE, err |-> "none",
                   usingTokenFile |-> FALSE, via |-> "NewClient"]

InitToken ==
    /\ vclient = NilClient
    /\ arnIn = [shape |-> "none"] /\ arn = EmptyStr /\ arnRes = NoCall /\ resolved = {}
    /\ ForwardingUnused
    /\ CryptoUnused
    /\ GatewayUnused
    /\ tokenFile \in FileContents
    /\ vaultToken \in ConfigTokens
    /\ envToken \in EnvTokens
    /\ ctor \in {NotConstructed, BareClient}
    /\ watcher = [running |-> FALSE, pc |-> "sleep", newToken |-> EmptyStr,
                  lastToken |-> EmptyStr, wakes |-> 0]
    /\ ops = [i \in 1..MaxCallers |-> IdleOp]
    /\ pending = [stage |-> "none", writes |-> 0]

\* NewClient: api.NewClient, setToken, and the watcher started only when the token
\* came from the file.
NewClient ==
    /\ ~ctor.done
    /\ \E addrOk \in BOOLEAN :
          LET r == setToken(tokenFile, vaultToken, envToken)
          IN  IF ~addrOk
              THEN /\ ctor' = [ctor EXCEPT !.done = TRUE, !.err = ErrCreateClient]
                   /\ UNCHANGED <<vclient, watcher>>
              ELSE IF ~r.ok
              THEN /\ ctor' = [ctor EXCEPT !.done = TRUE, !.err = ErrSetToken]
                   /\ UNCHANGED <<vclient, watcher>>
              ELSE /\ ctor' = [ctor EXCEPT !.done = TRUE, !.produced = TRUE,
                                           !.usingTokenFile = r.usingTokenFile]
                   /\ vclient' = [configured |-> TRUE, token |-> r.token]
                   /\ watcher' = [watcher EXCEPT !.running = startsWatcher(r.usingTokenFile)]
    /\ UNCHANGED <<arnIn, arn, arnRes, resolved, fwdVars, cryptoVars, gwVars,
                   tokenFile, vaultToken, envToken, ops, pending>>

\* The environment rewrites, blanks or removes the token file. An update the
\* watcher has to pick up is one with non-blank content other than the live token,
\* on a client whose startup token came from the file.
WriteTokenFile ==
    /\ pending.writes < MaxWrites
    /\ \E content \in FileContents \ {tokenFile} :
          /\ tokenFile' = content
          /\ pending' =
                [stage |-> IF /\ ctor.produced /\ ctor.usingTokenFile
                              /\ content.readable
                              /\ TrimSpace(content.content) # EmptyStr
                              /\ TrimSpace(content.content) # vclient.token
                           THEN "written" ELSE "none",
                 writes |-> pending.writes + 1]
    /\ UNCHANGED <<keyVars, fwdVars, cryptoVars, gwVars, vaultToken, envToken, ctor, watcher, ops>>

\* watchTokenFile, first half of one turn of the loop: the ticker fires and the
\* file is read.
WatcherRead ==
    /\ watcher.running /\ watcher.pc = "sleep" /\ watcher.wakes < MaxWakes
    /\ watcher' = [watcher EXCEPT
                      !.pc = "read", !.wakes = @ + 1,
                      !.newToken = IF ~tokenFile.readable THEN EmptyStr
                                   ELSE TrimSpace(tokenFile.content)]
    /\ pending' = [pending EXCEPT !.stage = IF @ = "written" THEN "read" ELSE @]
    /\ UNCHANGED <<keyVars, fwdVars, cryptoVars, gwVars, tokenFile, vaultToken, envToken, ctor, ops>>

\* watchTokenFile, second half: SetToken when the content is non-blank and new.
\* A failed read skips the turn.
WatcherApply ==
    /\ watcher.running /\ watcher.pc = "read"
    /\ IF watcherApplies(watcher.newToken, watcher.lastToken)
       THEN /\ vclient' = [vclient EXCEPT !.token = watcher.newToken]
            /\ watcher' = [watcher EXCEPT !.pc = "sleep", !.lastToken = watcher.newToken]
       ELSE /\ watcher' = [watcher EXCEPT !.pc = "sleep"]
            /\ UNCHANGED vclient
    /\ pending' = [pending EXCEPT !.stage = IF @ = "read" THEN "woken" ELSE @]
    /\ UNCHANGED <<arnIn, arn, arnRes, resolved, fwdVars, cryptoVars, gwVars,
                   tokenFile, vaultToken, envToken, ctor, ops>>

\* What a call returns, given the client as the call found it and whether the
\* service answered the request.
OpErr(kind, c, answered) ==
    CASE kind = "Encrypt" -> Encrypt(c, SampleData, SampleKey, answered).err
      [] kind = "Decrypt" ->
            Decrypt(c, TransitEncrypt(SampleKey, EncodeToString(SampleData)), SampleKey,
                    answered).err
      [] kind = "HealthCheck" -> HealthCheck(c, answered)
      [] OTHER -> NoErr

\* A caller enters Encrypt, Decrypt, HealthCheck or Address. On a client without
\* a session the call returns at once; Address never contacts the service;
\* otherwise the request leaves with the token that is live at this moment.
BeginOp ==
    /\ ctor.produced
    /\ \E i \in 1..MaxCallers, kind \in OpKinds :
          /\ ops[i].pc = "idle"
          /\ ops' = [ops EXCEPT ![i] =
                IF kind = "Address" \/ ~vclient.configured
                THEN [pc |-> "done", kind |-> kind, client |-> vclient,
                      contacted |-> FALSE, reached |-> FALSE,
                      err |-> OpErr(kind, vclient, FALSE),
                      value |-> IF kind = "Address" THEN Address(vclient) ELSE EmptyStr]
                ELSE [pc |-> "inflight", kind |-> kind, client |-> vclient,
                      contacted |-> TRUE, reached |-> FALSE, err |-> "none",
                      value |-> EmptyStr]]
    /\ UNCHANGED <<keyVars, fwdVars, cryptoVars, gwVars, tokenFile, vaultToken, envToken, ctor,
                   watcher, pending>>

\* The request of a call in flight comes back: the service was reached or not, and
\* it serves a transit request only under a token it accepts. sys/health needs no
\* token.
EndOp ==
    /\ \E i \in 1..MaxCallers, reached \in BOOLEAN :
          /\ ops[i].pc = "inflight"
          /\ LET answered == reached /\ (ops[i].kind = "HealthCheck"
                                          \/ ops[i].client.token \in ValidTokens)
             IN  ops' = [ops EXCEPT ![i] =
                    [@ EXCEPT !.pc = "done", !.reached = reached,
                              !.err = OpErr(ops[i].kind, ops[i].client, answered)]]
    /\ UNCHANGED <<keyVars, fwdVars, cryptoVars, gwVars, tokenFile, vaultToken, envToken, ctor,
                   watcher, pending>>

NextToken == NewClient \/ WriteTokenFile \/ WatcherRead \/ WatcherApply \/ BeginOp \/ EndOp

SpecToken == InitToken /\ [][NextToken]_vars

(***************************************************************************)
(* Key Gateway: properties of the session token                            *)
(***************************************************************************)
\* A call that has returned after the service was reached.
ServedOp(i) == ops[i].pc = "done" /\ ops[i].contacted /\ ops[i].reached

\* C11: once the watcher has woken after an update of the token file (non-blank
\* content other than the live token, on a client started from the file), the live
\* token is the file's content without its surrounding white space; and no call
\* that reached the service has failed, whichever token it left with.
C11_TokenHotSwap ==
    /\ pending.stage = "woken" => vclient.token = TrimSpace(tokenFile.content)
    /\ \A i \in 1..MaxCallers : ServedOp(i) => ops[i].err = NoErr

\* An update was applied while a call was in flight with the old token, and the
\* call succeeded.
C11_Witness ==
    /\ pending.stage = "woken"
    /\ watcher.lastToken # EmptyStr
    /\ \E i \in 1..MaxCallers :
          /\ ServedOp(i) /\ ops[i].kind = "Encrypt"
          /\ ops[i].client.token # vclient.token

\* The complete tokens: what a source holds, trimmed where the code trims.
CompleteTokens == ValidTokens

\* C12: a call that contacts the service leaves with a complete token, the one
\* before or the one after a replacement, never a blank or partial value.
C12_TokenReplacedAtomically ==
    \A i \in 1..MaxCallers :
        ops[i].contacted =>
            /\ ops[i].client.token \in CompleteTokens
            /\ \/ ops[i].client.token = vclient.token
               \/ watcher.lastToken = vclient.token

\* A call is in flight with the old token after the watcher has put the new one.
C12_Witness ==
    \E i \in 1..MaxCallers :
        /\ ops[i].pc = "inflight"
        /\ ops[i].client.token # vclient.token
        /\ watcher.lastToken = vclient.token

\* The token the constructor is to take, in the order of the sources.
StartupToken(file, vt, env) ==
    IF file.readable /\ TrimSpace(file.content) # EmptyStr THEN TrimSpace(file.content)
    ELSE IF vt # EmptyStr THEN vt
    ELSE env

SourcesExhausted(file, vt, env) ==
    /\ ~(file.readable /\ TrimSpace(file.content) # EmptyStr)
    /\ vt = EmptyStr
    /\ env = EmptyStr

\* C13: a constructor call whose vault address is accepted takes the token from
\* the file when it is readable and non-blank, else from the configuration value
\* when non-empty, else from VAULT_TOKEN when non-empty; with the three sources
\* exhausted it returns an error and produces no client.
C13_StartupTokenPriority ==
    [][(~ctor.done /\ ctor'.done /\ ctor'.err # ErrCreateClient) =>
          IF SourcesExhausted(tokenFile, vaultToken, envToken)
          THEN ~ctor'.produced /\ ctor'.err = ErrSetToken /\ vclient' = NilClient
          ELSE /\ ctor'.produced /\ ctor'.err = NoErr
               /\ vclient'.configured
               /\ vclient'.token = StartupToken(tokenFile, vaultToken, envToken)
               /\ ctor'.usingTokenFile =
                     (tokenFile.readable /\ TrimSpace(tokenFile.content) # EmptyStr)]_vars

\* The constructor fell back to VAULT_TOKEN behind a blank file.
C13_Witness ==
    /\ ctor.produced /\ ctor.via = "NewClient" /\ ~ctor.usingTokenFile
    /\ vaultToken = EmptyStr /\ envToken # EmptyStr
    /\ vclient.token = envToken
    /\ tokenFile.readable /\ pending.writes = 0

C26_WatcherWakeRule ==
    [][/\ (watcher.pc = "sleep" /\ watcher'.pc = "read") =>
             watcher'.newToken = IF tokenFile.readable THEN TrimSpace(tokenFile.content)
                                 ELSE EmptyStr
       /\ (watcher.pc = "read" /\ watcher'.pc = "sleep") =>
             /\ (vclient'.token # vclient.token)
                   = (watcher.newToken # EmptyStr /\ watcher.newToken # vclient.token)
             /\ vclient'.token # vclient.token => vclient'.token = watcher.newToken
             /\ watcher'.running]_vars

\* The watcher replaced the token at one wake and, at a later wake, met a file it
\* could not use: the token it had applied is still live and it is still running.
C26_Witness ==
    /\ watcher.running /\ watcher.pc = "sleep" /\ watcher.wakes >= 2
    /\ watcher.newToken = EmptyStr
    /\ watcher.lastToken = vclient.token /\ vclient.token # EmptyStr
    /\ pending.writes >= 2

ImplHandlers == "S3Handler"
ImplProxy == "S3VaultProxy"

\* ".metadata"
MetadataSuffix == <<".", "m", "e", "t", "a", "d", "a", "t", "a">>

HasSuffix(s, suf) ==
    Len(s) >= Len(suf) /\ SubSeq(s, Len(s) - Len(suf) + 1, Len(s)) = suf

\* metadata.Service.getMetadataKey
getMetadataKey(objectKey) == objectKey \o MetadataSuffix

\* S3VaultProxy.getMetadataPath, relative to the bucket directory:
\* filepath.Join(storagePath, bucket, ".metadata", key)
getMetadataPath(key) == MetadataSuffix \o Slash \o key

\* Where the sidecar record of a key lives behind each gateway.
SidecarPath(impl, key) ==
    IF impl = ImplHandlers THEN getMetadataKey(key) ELSE getMetadataPath(key)

\* md5 of a body, a function of the body alone; a body is modelled by its length.
MD5(n) == <<"m", "d", "5", "-", ToString(n)>>

\* md5 of a key.
MD5Key(key) == <<"m", "d", "5", "-">> \o key

\* "binary/octet-stream"
DefaultContentType == <<"b", "i", "n", "a", "r", "y", "/", "o", "c", "t", "e", "t", "-", "s", "t", "r", "e", "a", "m">>

\* Content.LastModified as the backend reports it, Content.StorageClass.
ModTime == <<"t", "0">>

StorageClass == <<"S", "T", "A", "N", "D", "A", "R", "D">>

\* ObjectMetadata.CustomMeta: a nil map, or a map from names to values.
NilMap == [nil |-> TRUE, m |-> [k \in {} |-> <<>>]]

MapOf(f) == [nil |-> FALSE, m |-> f]

\* A stored object that does not parse as a metadata record.
NoMeta == [valid |-> FALSE]

\* types.ObjectMetadata / the proxy's metadata map.
ObjectMetadata(n, contentType, kmsKeyARN) ==
    [valid |-> TRUE, ContentLength |-> n, ETag |-> MD5(n),
     ContentType |-> contentType, LastModified |-> ModTime, KMSKeyARN |-> kmsKeyARN,
     CustomMeta |-> NilMap]

\* A stored object of n arbitrary bytes.
Bytes(n) == [size |-> n, meta |-> NoMeta]

\* The proxy's metadata file ("name: value" lines); its length is taken to be
\* that of the ARN it holds.
Document(md) == [size |-> Len(md.KMSKeyARN), meta |-> md]

(***************************************************************************)
(* encoding/json, as far as ObjectMetadata uses it                         *)
(***************************************************************************)
\* A byte that is not valid UTF-8, and the rune U+FFFD that json.Marshal puts in
\* its place.
InvalidByte == "0xFF"

ReplacementRune == "U+FFFD"

\* json.Marshal of one byte of a string: quote and backslash are escaped, a byte
\* that is not valid UTF-8 becomes the escape \ufffd.
EncodeJSONChar(c) ==
    CASE c = "\"" -> <<"\\", "\"">>
      [] c = "\\" -> <<"\\", "\\">>
      [] c = InvalidByte -> <<"\\", "u", "f", "f", "f", "d">>
      [] OTHER -> <<c>>

RECURSIVE EncodeJSONString(_)
EncodeJSONString(str) ==
    IF str = <<>> THEN <<>>
    ELSE EncodeJSONChar(Head(str)) \o EncodeJSONString(Tail(str))

\* json.Unmarshal of the inside of a string literal.
RECURSIVE DecodeJSONString(_)
DecodeJSONString(t) ==
    IF t = <<>> THEN <<>>
    ELSE IF Head(t) = "\\" /\ Len(t) >= 2
    THEN IF t[2] = "u" /\ Len(t) >= 6
         THEN <<ReplacementRune>> \o DecodeJSONString(SubSeq(t, 7, Len(t)))
         ELSE <<t[2]>> \o DecodeJSONString(SubSeq(t, 3, Len(t)))
    ELSE <<Head(t)>> \o DecodeJSONString(Tail(t))

\* A map[string]string under a per-string conversion of its names and values.
ConvertMap(f, conv(_)) ==
    [ck \in {conv(k) : k \in DOMAIN f} |->
        conv(f[CHOOSE k \in DOMAIN f : conv(k) = ck])]

\* json.Marshal(metadata): every string encoded; custom_meta has omitempty and is
\* left out for a nil and for an empty map.
Marshal(md) ==
    [valid |-> TRUE,
     ContentLength |-> md.ContentLength,
     ContentType |-> EncodeJSONString(md.ContentType),
     ETag |-> EncodeJSONString(md.ETag),
     LastModified |-> EncodeJSONString(md.LastModified),
     KMSKeyARN |-> EncodeJSONString(md.KMSKeyARN),
     CustomMeta |-> IF DOMAIN md.CustomMeta.m = {} THEN NilMap
                    ELSE MapOf(ConvertMap(md.CustomMeta.m, EncodeJSONString))]

\* json.Unmarshal(metadataBytes, &metadata): a document without custom_meta
\* leaves the map nil.
Unmarshal(doc) ==
    [valid |-> TRUE,
     ContentLength |-> doc.ContentLength,
     ContentType |-> DecodeJSONString(doc.ContentType),
     ETag |-> DecodeJSONString(doc.ETag),
     LastModified |-> DecodeJSONString(doc.LastModified),
     KMSKeyARN |-> DecodeJSONString(doc.KMSKeyARN),
     CustomMeta |-> IF doc.CustomMeta.nil THEN NilMap
                    ELSE MapOf(ConvertMap(doc.CustomMeta.m, DecodeJSONString))]

\* The sidecar object metadata.Service.Store sends: the JSON document.
JSONDocument(md) == [size |-> Len(Marshal(md).KMSKeyARN), meta |-> Marshal(md)]

EmptyStore == [p \in {} |-> Bytes(0)]

StorePut(st, path, o) == [p \in (DOMAIN st) \cup {path} |-> IF p = path THEN o ELSE st[p]]

StoreRemove(st, path) == [p \in (DOMAIN st) \ {path} |-> st[p]]

\* Bodies of backend and gateway responses.
EmptyBody == [kind |-> "empty"]

ObjectBody(o) == [kind |-> "object", object |-> o]

BackendErrorBody(status) == [kind |-> "backend error document", status |-> status]

ListBody(contents) == [kind |-> "ListBucketResult", contents |-> contents]

GarbledBody == [kind |-> "unparsable"]

\* The order S3 lists keys in (and filepath.Walk visits files in): by byte value.
KeyAlphabet == <<".", "/", "a", "d", "e", "f", "m", "t">>

CharRank(c) == CHOOSE i \in 1..Len(KeyAlphabet) : KeyAlphabet[i] = c

RECURSIVE KeyBefore(_, _)
KeyBefore(a, b) ==
    IF a = <<>> THEN b # <<>>
    ELSE IF b = <<>> THEN FALSE
    ELSE IF Head(a) = Head(b) THEN KeyBefore(Tail(a), Tail(b))
    ELSE CharRank(Head(a)) < CharRank(Head(b))

RECURSIVE SortKeys(_)
SortKeys(S) ==
    IF S = {} THEN <<>>
    ELSE LET first == CHOOSE x \in S : \A y \in S \ {x} : KeyBefore(x, y)
         IN  <<first>> \o SortKeys(S \ {first})

\* The Contents of the backend's ListBucketResult: one entry per stored path, with
\* the size and ETag of the stored bytes.
BackendContents(st) ==
    LET keys == SortKeys(DOMAIN st)
    IN  [i \in 1..Len(keys) |->
            [Key |-> keys[i], LastModified |-> ModTime, ETag |-> MD5(st[keys[i]].size),
             Size |-> st[keys[i]].size, StorageClass |-> StorageClass]]

\* What can go wrong with one request to the backend: nothing, no connection, a
\* 500, a response whose body stream breaks, a 200 whose body is not a
\* ListBucketResult.
Faults == {"none", "unreachable", "error", "truncated"}

\* The metadata service is also run against a 403 and against a 301 that carries
\* no Location (http.Client returns such a response as it is).
ServiceFaults == Faults \cup {"denied", "moved"}

ListFaults == Faults \cup {"garbled"}

\* The S3 service behind ForwardRequest: the outcome of one request and the bucket
\* after it.
S3Serve(method, path, o, st, fault) ==
    LET respond(status, b, after) ==
            [out |-> [kind |-> "response", StatusCode |-> status, Body |-> b,
                      readErr |-> fault = "truncated"],
             store |-> after]
    IN  CASE fault = "unreachable" ->
                [out |-> [kind |-> "unreachable", StatusCode |-> 0, Body |-> EmptyBody,
                          readErr |-> FALSE],
                 store |-> st]
          [] fault = "error" -> respond(500, BackendErrorBody(500), st)
          [] fault = "denied" -> respond(403, BackendErrorBody(403), st)
          [] fault = "moved" -> respond(301, BackendErrorBody(301), st)
          [] fault = "garbled" -> respond(200, GarbledBody, st)
          [] OTHER ->
                CASE method = "PUT" -> respond(200, EmptyBody, StorePut(st, path, o))
                  [] method = "GET" ->
                        IF path \in DOMAIN st THEN respond(200, ObjectBody(st[path]), st)
                        ELSE respond(404, BackendErrorBody(404), st)
                  [] method = "HEAD" ->
                        IF path \in DOMAIN st THEN respond(200, EmptyBody, st)
                        ELSE respond(404, EmptyBody, st)
                  [] method = "DELETE" -> respond(204, EmptyBody, StoreRemove(st, path))
                  [] method = "LIST" -> respond(200, ListBody(BackendContents(st)), st)

\* One backend request as a handler sees it: s3Client.ForwardRequest's return value,
\* the bucket afterwards and the entry the request leaves in backendLog.
Forward(method, path, o, st, fault) ==
    LET served == S3Serve(method, path, o, st, fault)
        resp == ReceiveResponse(served.out)
    IN  [resp |-> resp, store |-> served.store,
         entry |-> [method |-> method, path |-> path,
                    ok |-> resp.err = NoErr /\ resp.StatusCode < 400,
                    status |-> resp.StatusCode,
                    body |-> IF resp.err = NoErr THEN resp.Body ELSE EmptyBody,
                    intact |-> resp.BodyReader \in {"memory", "stream"}]]

\* io.ReadAll(resp.Body) fails when the stream breaks.
ReadAllFails(resp) == resp.BodyReader \in {"failed stream", "failing stream"}

(***************************************************************************)
(* What a handler hands back to the client                                 *)
(***************************************************************************)
\* c.Status(status).XML(types.ErrorResponse{Code: code, ...})
XMLError(status, code, message) ==
    [status |-> status, code |-> code, body |-> [kind |-> "xml error", Message |-> message]]

\* c.XML(result)
XMLResult(b) == [status |-> 200, code |-> "none", body |-> b]

\* c.SendStatus(status): the status, and its status text as the body when the body
\* is empty.
SendStatus(status) ==
    [status |-> status, code |-> "none", body |-> [kind |-> "status text", status |-> status]]

\* c.Status(status).Send(nil)
SendNil(status) == [status |-> status, code |-> "none", body |-> EmptyBody]

\* errorHandler: an error a handler returns becomes a 500 with a JSON body.
errorHandler == [status |-> 500, code |-> "none", body |-> [kind |-> "json error"]]

\* S3Handler.forwardResponse: status and body of the backend response, or the
\* error of io.ReadAll.
forwardResponse(resp) ==
    IF ReadAllFails(resp) THEN errorHandler
    ELSE [status |-> resp.StatusCode, code |-> "none", body |-> resp.Body]

\* S3Handler.forwardRawResponse
forwardRawResponse(statusCode, b) == [status |-> statusCode, code |-> "none", body |-> b]

\* S3Handler.getKMSKeyARN / S3VaultProxy.getKMSKeyARN: the header value, or an
\* error when the request carries none.
ErrKMSRequired == "KMS key ARN is required (header)"

getKMSKeyARN(hdr) ==
    IF hdr = EmptyStr THEN [arn |-> EmptyStr, err |-> ErrKMSRequired]
    ELSE [arn |-> hdr, err |-> NoErr]

\* What a handler did: the response, the bucket afterwards, the backend requests
\* it made, the vault calls it made, and whether it stored the primary object.
Outcome(resp, st, log, calls, stored) ==
    [resp |-> resp, store |-> st, log |-> log, vault |-> calls, stored |-> stored]

(***************************************************************************)
(* S3Handler                                                               *)
(***************************************************************************)
\* Mutant: the object is forwarded before the request is validated.
PutObject_forwardFirst(key, hdr, n, st, fault) ==
    LET r == Forward("PUT", key, Bytes(n), st, fault)
        kms == getKMSKeyARN(hdr)
    IN  IF key = EmptyStr \/ kms.err # NoErr \/ ARNToVaultKey(kms.arn).err # NoErr
        THEN Outcome(XMLError(400, "InvalidRequest", "invalid"), r.store, <<r.entry>>, 0,
                     r.entry.ok)
        ELSE Outcome(SendStatus(200), r.store, <<r.entry>>, 0, r.entry.ok)

\* S3Handler.PutObject: bucket and key, the KMS header and the ARN are validated,
\* then the body is forwarded as it came.
PutObject(key, hdr, n, st, fault) ==
    IF key = EmptyStr
    THEN Outcome(XMLError(400, "InvalidRequest", "Missing bucket or key"), st, <<>>, 0, FALSE)
    ELSE LET kms == getKMSKeyARN(hdr)
         IN  IF kms.err # NoErr
             THEN Outcome(XMLError(400, "InvalidRequest", kms.err), st, <<>>, 0, FALSE)
             ELSE LET vaultKey == ARNToVaultKey(kms.arn)
                  IN  IF vaultKey.err # NoErr
                      THEN Outcome(XMLError(400, "InvalidRequest", vaultKey.err), st, <<>>,
                                   0, FALSE)
                      ELSE LET r == Forward("PUT", key, Bytes(n), st, fault)
                           IN  IF r.resp.err # NoErr
                               THEN Outcome(XMLError(500, "InternalError",
                                                     "Failed to store object"),
                                            r.store, <<r.entry>>, 0, FALSE)
                               ELSE IF r.resp.StatusCode >= 400
                               THEN Outcome(SendNil(r.resp.StatusCode), r.store,
                                            <<r.entry>>, 0, FALSE)
                               ELSE Outcome(SendStatus(r.resp.StatusCode), r.store,
                                            <<r.entry>>, 0, TRUE)

\* S3Handler.GetObject
GetObject(key, st, fault) ==
    LET r == Forward("GET", key, Bytes(0), st, fault)
    IN  IF r.resp.err # NoErr
        THEN Outcome(XMLError(500, "InternalError", "Failed to get object"), r.store,
                     <<r.entry>>, 0, FALSE)
        ELSE Outcome(forwardResponse(r.resp), r.store, <<r.entry>>, 0, FALSE)

\* S3Handler.HeadObject
HeadObject(key, st, fault) ==
    LET r == Forward("HEAD", key, Bytes(0), st, fault)
    IN  IF r.resp.err # NoErr
        THEN Outcome(XMLError(500, "InternalError", "Failed to head object"), r.store,
                     <<r.entry>>, 0, FALSE)
        ELSE Outcome(forwardResponse(r.resp), r.store, <<r.entry>>, 0, FALSE)

\* Mutant: a sidecar delete that fails is reported to the client.
DeleteObject_surfacing(key, st, fault, metaFault) ==
    LET r == Forward("DELETE", key, Bytes(0), st, fault)
        m == Forward("DELETE", getMetadataKey(key), Bytes(0), r.store, metaFault)
    IN  Outcome(IF m.entry.ok THEN SendStatus(204)
                ELSE XMLError(500, "InternalError", "Failed to delete metadata"),
                m.store, <<r.entry, m.entry>>, 0, FALSE)

\* S3Handler.DeleteObject: the object, then key + ".metadata"; what the backend
\* answers is logged only.
DeleteObject(key, st, fault, metaFault) ==
    LET r == Forward("DELETE", key, Bytes(0), st, fault)
        m == Forward("DELETE", getMetadataKey(key), Bytes(0), r.store, metaFault)
    IN  Outcome(SendStatus(204), m.store, <<r.entry, m.entry>>, 0, FALSE)

\* Mutant: every key that holds ".metadata" anywhere is dropped.
FilterMetadataObjects_contains(contents) ==
    SelectSeq(contents, LAMBDA obj : ~Contains(obj.Key, MetadataSuffix))

\* metadata.FilterMetadataObjects
FilterMetadataObjects(contents) ==
    SelectSeq(contents, LAMBDA obj : ~HasSuffix(obj.Key, MetadataSuffix))

ErrGetTransport == "failed to get metadata"
ErrMetaNotFound == "metadata not found for object"
ErrMetaAccessDenied == "access denied reading metadata"
ErrGetHTTP == "failed to get metadata: HTTP"
ErrReadMetadata == "failed to read metadata"
ErrUnmarshal == "failed to unmarshal metadata"

\* Mutant: the status is not looked at before the body is parsed.
Get_statusBlind(key, st, fault) ==
    LET r == Forward("GET", getMetadataKey(key), Bytes(0), st, fault)
        failed(e) == [meta |-> NoMeta, err |-> e, status |-> r.resp.StatusCode,
                      entry |-> r.entry]
    IN  IF r.resp.err # NoErr THEN failed(ErrGetTransport)
        ELSE failed(ErrUnmarshal)

\* metadata.Service.Get: the sidecar object is fetched, the status classified, the
\* body read and parsed.
Get(key, st, fault) ==
    LET r == Forward("GET", getMetadataKey(key), Bytes(0), st, fault)
        failed(e) == [meta |-> NoMeta, err |-> e, status |-> r.resp.StatusCode,
                      entry |-> r.entry]
    IN  IF r.resp.err # NoErr THEN failed(ErrGetTransport)
        ELSE IF r.resp.StatusCode = 404 THEN failed(ErrMetaNotFound)
        ELSE IF r.resp.StatusCode = 403 THEN failed(ErrMetaAccessDenied)
        ELSE IF r.resp.StatusCode >= 400 THEN failed(ErrGetHTTP)
        ELSE IF ReadAllFails(r.resp) THEN failed(ErrReadMetadata)
        ELSE IF r.resp.Body.kind # "object" THEN failed(ErrUnmarshal)
        ELSE IF ~r.resp.Body.object.meta.valid THEN failed(ErrUnmarshal)
        ELSE [meta |-> Unmarshal(r.resp.Body.object.meta), err |-> NoErr,
              status |-> r.resp.StatusCode, entry |-> r.entry]

ErrStoreTransport == "failed to store metadata"
ErrStoreHTTP == "failed to store metadata: HTTP"

\* Mutant: Store answers Ok whatever the backend's status.
Store_anyStatus(key, md, headers, st, fault) ==
    LET r == Forward("PUT", getMetadataKey(key), JSONDocument(md), st, fault)
        sent == [method |-> "PUT", path |-> getMetadataKey(key), headers |-> headers]
    IN  IF r.resp.err # NoErr
        THEN [err |-> ErrStoreTransport, status |-> 0, store |-> r.store,
              log |-> <<r.entry>>, sent |-> <<sent>>]
        ELSE [err |-> NoErr, status |-> r.resp.StatusCode, store |-> r.store,
              log |-> <<r.entry>>, sent |-> <<sent>>]

\* metadata.Service.Store: the record is marshalled and PUT under the metadata key
\* with the caller's headers; a status >= 400 is an error that names the status.
Store(key, md, headers, st, fault) ==
    LET r == Forward("PUT", getMetadataKey(key), JSONDocument(md), st, fault)
        sent == [method |-> "PUT", path |-> getMetadataKey(key), headers |-> headers]
    IN  IF r.resp.err # NoErr
        THEN [err |-> ErrStoreTransport, status |-> 0, store |-> r.store,
              log |-> <<r.entry>>, sent |-> <<sent>>]
        ELSE IF r.resp.StatusCode >= 400
        THEN [err |-> ErrStoreHTTP, status |-> r.resp.StatusCode, store |-> r.store,
              log |-> <<r.entry>>, sent |-> <<sent>>]
        ELSE [err |-> NoErr, status |-> r.resp.StatusCode, store |-> r.store,
              log |-> <<r.entry>>, sent |-> <<sent>>]

\* Mutant: one sidecar that cannot be fetched fails the whole listing.
ListObjects_failFast(st, fault, metaFault) ==
    LET r == Forward("LIST", EmptyStr, Bytes(0), st, fault)
        listed == IF r.resp.err = NoErr /\ r.resp.StatusCode < 400 /\ ~ReadAllFails(r.resp)
                     /\ r.resp.Body.kind = "ListBucketResult"
                  THEN FilterMetadataObjects(r.resp.Body.contents)
                  ELSE <<>>
        got == [i \in 1..Len(listed) |-> Get(listed[i].Key, st, metaFault[listed[i].Key])]
    IN  Outcome(IF \A i \in 1..Len(listed) : got[i].err = NoErr
                THEN XMLResult(ListBody([i \in 1..Len(listed) |->
                        [listed[i] EXCEPT !.Size = got[i].meta.ContentLength,
                                          !.ETag = got[i].meta.ETag]]))
                ELSE XMLError(500, "InternalError", "Failed to list objects"),
                st, <<r.entry>> \o [i \in 1..Len(listed) |-> got[i].entry], 0, FALSE)

\* S3Handler.ListObjects: the backend's listing without the .metadata keys, each
\* entry with the size and ETag of its sidecar record when that can be fetched;
\* metaFault tells, per key, what goes wrong with the fetch of its sidecar.
ListObjects(st, fault, metaFault) ==
    LET r == Forward("LIST", EmptyStr, Bytes(0), st, fault)
    IN  IF r.resp.err # NoErr
        THEN Outcome(XMLError(500, "InternalError", "Failed to list objects"), st,
                     <<r.entry>>, 0, FALSE)
        ELSE IF r.resp.StatusCode >= 400
        THEN Outcome(forwardResponse(r.resp), st, <<r.entry>>, 0, FALSE)
        ELSE IF ReadAllFails(r.resp)
        THEN Outcome(XMLError(500, "InternalError", "Failed to read list response"), st,
                     <<r.entry>>, 0, FALSE)
        ELSE IF r.resp.Body.kind # "ListBucketResult"
        THEN Outcome(forwardRawResponse(r.resp.StatusCode, r.resp.Body), st, <<r.entry>>,
                     0, FALSE)
        ELSE LET filteredContents == FilterMetadataObjects(r.resp.Body.contents)
                 got == [i \in 1..Len(filteredContents) |->
                            Get(filteredContents[i].Key, st, metaFault[filteredContents[i].Key])]
                 enhanced == [i \in 1..Len(filteredContents) |->
                                IF got[i].err = NoErr
                                THEN [filteredContents[i] EXCEPT
                                        !.Size = got[i].meta.ContentLength,
                                        !.ETag = got[i].meta.ETag]
                                ELSE filteredContents[i]]
             IN  Outcome(XMLResult(ListBody(enhanced)), st,
                         <<r.entry>> \o [i \in 1..Len(filteredContents) |-> got[i].entry],
                         0, FALSE)

(***************************************************************************)
(* S3VaultProxy: the same routes over a directory tree                     *)
(***************************************************************************)
\* One file-system call of the proxy, as an entry of backendLog.
FsEntry(method, path, ok) ==
    [method |-> method, path |-> path, ok |-> ok, status |-> 0, body |-> EmptyBody,
     intact |-> TRUE]

\* S3VaultProxy.arnToVaultKey makes the checks of Client.ARNToVaultKey, in the same
\* order, and builds the same name.
arnToVaultKey(a) == ARNToVaultKey(a)

\* S3VaultProxy.encrypt
encrypt(d, key, up) ==
    LET plaintext == EncodeToString(d)
    IN  IF ~up THEN [ciphertext |-> EmptyStr, err |-> ErrEncryptFailed]
        ELSE [ciphertext |-> TransitEncrypt(key, plaintext), err |-> NoErr]

\* A body of n bytes.
BodyOf(n) == [i \in 1..n |-> 0]

\* The step of putObject that fails, if any.
PutFailures == {"none", "bucket", "encrypt", "dir", "object", "metaDir", "meta"}

\* Mutant: the metadata file is written before the object file.
putObject_metaFirst(key, hdr, n, st, failing) ==
    IF \/ key = EmptyStr \/ n = 0
       \/ getKMSKeyARN(hdr).err # NoErr \/ arnToVaultKey(hdr).err # NoErr
    THEN Outcome(XMLError(400, "InvalidRequest", "Invalid request"), st, <<>>, 0, FALSE)
    ELSE LET metadataPath == getMetadataPath(key)
             wrMeta == FsEntry("WRITE", metadataPath, TRUE)
             wrObject == FsEntry("WRITE", key, failing # "object")
             withMeta == StorePut(st, metadataPath,
                                  Document(ObjectMetadata(n, DefaultContentType, hdr)))
         IN  IF wrObject.ok
             THEN Outcome(SendStatus(200), StorePut(withMeta, key, Bytes(n)),
                          <<wrMeta, wrObject>>, 1, TRUE)
             ELSE Outcome(XMLError(500, "InternalError", "Failed to store object"),
                          withMeta, <<wrMeta, wrObject>>, 1, FALSE)

\* S3VaultProxy.putObject: validation, ensureBucketExists, encrypt, the object file,
\* then the metadata file, whose errors are dropped.
putObject(key, hdr, n, st, failing) ==
    IF key = EmptyStr
    THEN Outcome(XMLError(400, "InvalidRequest", "Missing bucket or key"), st, <<>>, 0, FALSE)
    ELSE IF n = 0
    THEN Outcome(XMLError(400, "InvalidRequest", "Empty request body"), st, <<>>, 0, FALSE)
    ELSE LET kms == getKMSKeyARN(hdr)
         IN  IF kms.err # NoErr
             THEN Outcome(XMLError(400, "InvalidRequest", kms.err), st, <<>>, 0, FALSE)
             ELSE LET vaultKey == arnToVaultKey(kms.arn)
                  IN  IF vaultKey.err # NoErr
                      THEN Outcome(XMLError(400, "InvalidRequest", vaultKey.err), st, <<>>,
                                   0, FALSE)
                      ELSE LET mkBucket == FsEntry("MKDIR", EmptyStr, failing # "bucket")
                               enc == encrypt(BodyOf(n), vaultKey.key, failing # "encrypt")
                               mkDir == FsEntry("MKDIR", key, failing # "dir")
                               wrObject == FsEntry("WRITE", key, failing # "object")
                               metadataPath == getMetadataPath(key)
                               mkMeta == FsEntry("MKDIR", metadataPath, failing # "metaDir")
                               wrMeta == FsEntry("WRITE", metadataPath,
                                                 failing \notin {"metaDir", "meta"})
                               withObject == StorePut(st, key, Bytes(Len(enc.ciphertext)))
                               md == ObjectMetadata(n, DefaultContentType, kms.arn)
                               withMeta == IF wrMeta.ok
                                           THEN StorePut(withObject, metadataPath, Document(md))
                                           ELSE withObject
                           IN  IF ~mkBucket.ok
                               THEN Outcome(XMLError(500, "InternalError",
                                                     "Failed to create bucket"),
                                            st, <<mkBucket>>, 0, FALSE)
                               ELSE IF enc.err # NoErr
                               THEN Outcome(XMLError(500, "InternalError", "Encryption failed"),
                                            st, <<mkBucket>>, 1, FALSE)
                               ELSE IF ~mkDir.ok
                               THEN Outcome(XMLError(500, "InternalError",
                                                     "Failed to create object directory"),
                                            st, <<mkBucket, mkDir>>, 1, FALSE)
                               ELSE IF ~wrObject.ok
                               THEN Outcome(XMLError(500, "InternalError",
                                                     "Failed to store object"),
                                            st, <<mkBucket, mkDir, wrObject>>, 1, FALSE)
                               ELSE Outcome(SendStatus(200), withMeta,
                                            <<mkBucket, mkDir, wrObject, mkMeta, wrMeta>>,
                                            1, TRUE)

\* S3VaultProxy.deleteObject: os.Remove of the object file, then of the metadata
\* file; neither error is looked at.
deleteObject(key, st, fails, metaFails) ==
    LET metadataPath == getMetadataPath(key)
        rmObject == FsEntry("REMOVE", key, ~fails /\ key \in DOMAIN st)
        afterObject == IF rmObject.ok THEN StoreRemove(st, key) ELSE st
        rmMeta == FsEntry("REMOVE", metadataPath,
                          ~metaFails /\ metadataPath \in DOMAIN afterObject)
        afterMeta == IF rmMeta.ok THEN StoreRemove(afterObject, metadataPath)
                     ELSE afterObject
    IN  Outcome(SendStatus(204), afterMeta, <<rmObject, rmMeta>>, 0, FALSE)

\* S3VaultProxy.listObjects: every file whose path does not contain ".metadata",
\* with the size and ETag of its metadata file when that file has the lines.
listObjects(st) ==
    LET walked == SelectSeq(SortKeys(DOMAIN st), LAMBDA p : ~Contains(p, MetadataSuffix))
        entryOf(key) ==
            LET metadataPath == getMetadataPath(key)
                hasLines == metadataPath \in DOMAIN st /\ st[metadataPath].meta.valid
            IN  [Key |-> key,
                 LastModified |-> ModTime,
                 ETag |-> IF hasLines THEN st[metadataPath].meta.ETag ELSE MD5Key(key),
                 Size |-> IF hasLines THEN st[metadataPath].meta.ContentLength
                          ELSE st[key].size,
                 StorageClass |-> StorageClass]
    IN  Outcome(XMLResult(ListBody([i \in 1..Len(walked) |-> entryOf(walked[i])])), st,
                <<FsEntry("WALK", EmptyStr, TRUE)>>, 0, FALSE)

(***************************************************************************)
(* S3 routes: inputs and actions                                           *)
(***************************************************************************)
\* "f"
ObjKey == <<"f">>

\* "arn:aws:kms:r:a:key/u"
ValidARN == <<"a", "r", "n", ":", "a", "w", "s", ":", "k", "m", "s", ":", "r", ":", "a", ":", "k", "e", "y", "/", "u">>

\* "arn:aws:s3:r:a:key/u"
RejectedARN == <<"a", "r", "n", ":", "a", "w", "s", ":", "s", "3", ":", "r", ":", "a", ":", "k", "e", "y", "/", "u">>

\* The key of a request: none, an object key, and the path under which the
\* gateway keeps the sidecar record of that key.
\* A second object, "d", that no request of the model names: it is in the bucket
\* from the start or not at all, for listings of more than one entry.
OtherKey == <<"d">>

ObjectPaths(impl) == {ObjKey, SidecarPath(impl, ObjKey)}

ClientKeys(impl) == {EmptyStr} \cup ObjectPaths(impl)

\* The value of the x-amz-server-side-encryption-aws-kms-key-id header; empty when
\* the request has none.
KMSHeaders == {EmptyStr, ValidARN, RejectedARN}

\* Body lengths.
BodySizes == {0, 3}

\* What a sidecar fetch of ListObjects can meet, per key.
MetaFaults == [{ObjKey, OtherKey} -> {"none", "error", "denied"}]

\* The bucket when the gateway starts: empty; an object that was stored without
\* the gateway; an object and its sidecar record as an earlier run left them.
DirectObject == [p \in {ObjKey} |-> Bytes(2)]

EarlierPut(impl) ==
    LET md == ObjectMetadata(2, DefaultContentType, ValidARN)
    IN  StorePut(DirectObject, SidecarPath(impl, ObjKey),
                 IF impl = ImplProxy THEN Document(md) ELSE JSONDocument(md))

InitGateway ==
    /\ vclient = NilClient
    /\ arnIn = [shape |-> "none"] /\ arn = EmptyStr /\ arnRes = NoCall /\ resolved = {}
    /\ ForwardingUnused
    /\ CryptoUnused
    /\ TokenUnused
    /\ gwImpl \in {ImplHandlers, ImplProxy}
    /\ \/ store = EmptyStore /\ putKeys = {}
       \/ store = DirectObject /\ putKeys = {}
       \/ store = EarlierPut(gwImpl) /\ putKeys = {ObjKey}
       \/ store = StorePut(EarlierPut(gwImpl), OtherKey, Bytes(1)) /\ putKeys = {ObjKey}
    /\ gwReq = NoGwReq
    /\ gwResp = NoGwResp
    /\ backendLog = <<>>
    /\ vaultCalls = 0

\* The client gets its answer: the handler has run to its return.
Answer(op, key, hdr, n, o) ==
    \E done \in {o} :
       /\ gwReq' = [op |-> op, key |-> key, arn |-> hdr, size |-> n]
       /\ gwResp' = done.resp
       /\ store' = done.store
       /\ putKeys' = (IF done.stored THEN putKeys \cup {key} ELSE putKeys)
                        \cap DOMAIN done.store
       /\ backendLog' = done.log
       /\ vaultCalls' = done.vault
       /\ UNCHANGED <<keyVars, fwdVars, cryptoVars, tokenVars, gwImpl>>

HandlerPut ==
    /\ gwImpl = ImplHandlers
    /\ \E key \in ClientKeys(gwImpl), hdr \in KMSHeaders, n \in BodySizes, fault \in Faults :
          Answer("PutObject", key, hdr, n, PutObject(key, hdr, n, store, fault))

HandlerGet ==
    /\ gwImpl = ImplHandlers
    /\ \E key \in ObjectPaths(gwImpl), fault \in Faults :
          Answer("GetObject", key, EmptyStr, 0, GetObject(key, store, fault))

HandlerHead ==
    /\ gwImpl = ImplHandlers
    /\ \E key \in ObjectPaths(gwImpl), fault \in Faults :
          Answer("HeadObject", key, EmptyStr, 0, HeadObject(key, store, fault))

HandlerDelete ==
    /\ gwImpl = ImplHandlers
    /\ \E key \in ObjectPaths(gwImpl), fault \in Faults, metaFault \in Faults :
          Answer("DeleteObject", key, EmptyStr, 0, DeleteObject(key, store, fault, metaFault))

HandlerList ==
    /\ gwImpl = ImplHandlers
    /\ \E fault \in ListFaults, metaFault \in MetaFaults :
          Answer("ListObjects", EmptyStr, EmptyStr, 0, ListObjects(store, fault, metaFault))

ProxyPut ==
    /\ gwImpl = ImplProxy
    /\ \E key \in ClientKeys(gwImpl), hdr \in KMSHeaders, n \in BodySizes, failing \in PutFailures :
          Answer("PutObject", key, hdr, n, putObject(key, hdr, n, store, failing))

ProxyDelete ==
    /\ gwImpl = ImplProxy
    /\ \E key \in ObjectPaths(gwImpl), fails \in BOOLEAN, metaFails \in BOOLEAN :
          Answer("DeleteObject", key, EmptyStr, 0, deleteObject(key, store, fails, metaFails))

ProxyList ==
    /\ gwImpl = ImplProxy
    /\ Answer("ListObjects", EmptyStr, EmptyStr, 0, listObjects(store))

NextGateway ==
    \/ HandlerPut
    \/ HandlerGet
    \/ HandlerHead
    \/ HandlerDelete
    \/ HandlerList
    \/ ProxyPut
    \/ ProxyDelete
    \/ ProxyList

SpecGateway == InitGateway /\ [][NextGateway]_vars

(***************************************************************************)
(* S3 routes: properties                                                   *)
(***************************************************************************)
\* The request just answered was a PutObject whose primary object the backend
\* stored.
WriteSucceeded ==
    /\ gwReq.op = "PutObject"
    /\ \E i \in 1..Len(backendLog) :
          /\ backendLog[i].method \in {"PUT", "WRITE"}
          /\ backendLog[i].path = gwReq.key
          /\ backendLog[i].ok

\* What a ListObjects issued now, with nothing going wrong, would return.
ListingNow ==
    IF gwImpl = ImplHandlers
    THEN ListObjects(store, "none", [p \in {ObjKey, OtherKey} |-> "none"]).resp.body.contents
    ELSE listObjects(store).resp.body.contents

EntriesFor(key) == {i \in 1..Len(ListingNow) : ListingNow[i].Key = key}

\* C15: after a PutObject of key with an n-byte body and KMS ARN a that the backend
\* answered with a non-error status, the sidecar record of key is stored and holds
\* the plaintext size n, the ETag, the content type and a, and a ListObjects that
\* follows has exactly one entry for key, of Size n.
C15_SidecarPersistedOnWrite ==
    WriteSucceeded =>
        LET sidecar == SidecarPath(gwImpl, gwReq.key)
        IN  /\ sidecar \in DOMAIN store
            /\ store[sidecar].meta =
                   ObjectMetadata(gwReq.size, DefaultContentType, gwReq.arn)
            /\ Cardinality(EntriesFor(gwReq.key)) = 1
            /\ \A i \in EntriesFor(gwReq.key) : ListingNow[i].Size = gwReq.size

\* C16: at every moment the sidecar record of a key exists if and only if the
\* primary object of that key exists and was written through the gateway.
C16_SidecarIffPrimary ==
    gwImpl # "none" =>
        (SidecarPath(gwImpl, ObjKey) \in DOMAIN store
            <=> (ObjKey \in DOMAIN store /\ ObjKey \in putKeys))

\* The sidecar record of ObjKey in a bucket, or that there is none.
SidecarOf(st) ==
    IF SidecarPath(gwImpl, ObjKey) \in DOMAIN st
    THEN [present |-> TRUE, record |-> st[SidecarPath(gwImpl, ObjKey)]]
    ELSE [present |-> FALSE, record |-> Bytes(0)]

\* C17: a client PutObject or DeleteObject addressed at the sidecar key of k leaves
\* the sidecar record of k as it was.
C17_SidecarNotClientWritable ==
    [][(/\ gwReq'.op \in {"PutObject", "DeleteObject"}
        /\ gwReq'.key = SidecarPath(gwImpl, ObjKey))
           => SidecarOf(store') = SidecarOf(store)]_vars

\* The backend returned a response to the request S3Handler forwarded for the
\* object itself.
BackendAnswered ==
    /\ gwImpl = ImplHandlers
    /\ gwReq.op \in {"PutObject", "GetObject", "HeadObject", "DeleteObject"}
    /\ backendLog # <<>>
    /\ backendLog[1].status # 0

\* C18: when the backend returns a response to a forwarded PutObject, GetObject,
\* HeadObject or DeleteObject, the client's response has that response's status
\* and body.
C18_PassThroughRelay ==
    BackendAnswered =>
        /\ gwResp.status = backendLog[1].status
        /\ gwResp.body = backendLog[1].body

\* The PutObject just answered had no KMS key header, or one whose ARN
\* ARNToVaultKey rejects.
InvalidPut ==
    /\ gwReq.op = "PutObject"
    /\ \/ gwReq.arn = EmptyStr
       \/ ARNToVaultKey(gwReq.arn).err # NoErr

\* C19: a PutObject without the KMS key header or with a rejected ARN is answered
\* 400 with an XML Error of Code InvalidRequest, and the handler has made no
\* request to the storage backend and no encrypt or decrypt call.
C19_ValidationBeforeBackend ==
    InvalidPut =>
        /\ gwResp.status = 400
        /\ gwResp.code = "InvalidRequest"
        /\ gwResp.body.kind = "xml error"
        /\ backendLog = <<>>
        /\ vaultCalls = 0

C19_Witness ==
    /\ gwReq.op = "PutObject"
    /\ gwReq.key = ObjKey
    /\ gwReq.arn = RejectedARN
    /\ gwResp.status = 400

\* C20: a DeleteObject deletes the primary object first and the sidecar record
\* after it, and when the primary delete succeeded and the sidecar delete failed
\* the client still gets 204 and no error.
C20_SidecarDeleteFailureHidden ==
    gwReq.op = "DeleteObject" =>
        /\ Len(backendLog) = 2
        /\ backendLog[1].path = gwReq.key
        /\ backendLog[2].path = SidecarPath(gwImpl, gwReq.key)
        /\ (backendLog[1].ok /\ ~backendLog[2].ok)
              => (gwResp.status = 204 /\ gwResp.code = "none"
                  /\ gwResp.body.kind # "xml error")

C20_Witness ==
    /\ gwReq.op = "DeleteObject"
    /\ Len(backendLog) = 2
    /\ backendLog[1].ok
    /\ ~backendLog[2].ok
    /\ gwResp.status = 204

(***************************************************************************)
(* The metadata service on its own: Store, Get and FilterMetadataObjects   *)
(* called against a backend that may fail, next to another writer of the   *)
(* same bucket.  putKeys maps a key to the record whose Store the backend  *)
(* took and that nothing has written over since.                           *)
(***************************************************************************)
ImplService == "metadata.Service"

\* The keys the service is called with.
ServiceKeys == {ObjKey}

\* Content types: plain, with a quote and a backslash, a byte that is not UTF-8.
TypeSamples == {<<"a">>, <<"\"", "\\">>, <<InvalidByte>>}

\* Custom metadata: no map, an empty map, one entry.
CustomMaps == {NilMap, MapOf([k \in {} |-> <<>>]), MapOf([k \in {<<"k">>} |-> <<"v">>])}

ServiceRecords ==
    {[valid |-> TRUE, ContentLength |-> IF cm.nil THEN 0 ELSE 3, ContentType |-> ct,
      ETag |-> MD5(3), LastModified |-> ModTime, KMSKeyARN |-> ValidARN,
      CustomMeta |-> cm] : ct \in TypeSamples, cm \in CustomMaps}

\* The headers the caller hands to Store.
CallerHeaders == {[n \in {} |-> <<>>], [n \in {"Authorization"} |-> <<<<"s">>>>]}

\* Listings handed to FilterMetadataObjects: entries of a key, of its sidecar, and
\* of a key that holds ".metadata" but does not end with it.
MaxListing == 3

ListingKeys == {ObjKey, getMetadataKey(ObjKey), getMetadataKey(ObjKey) \o <<"x">>}

ListingEntry(key) ==
    [Key |-> key, LastModified |-> ModTime, ETag |-> MD5Key(key), Size |-> Len(key),
     StorageClass |-> StorageClass]

Listings ==
    UNION {[1..n -> {ListingEntry(k) : k \in ListingKeys}] : n \in 0..MaxListing}

NoSvcReq ==
    [op |-> "none", key |-> EmptyStr, record |-> NoMeta,
     headers |-> [n \in {} |-> <<>>], listing |-> <<>>]

NoSvcResp ==
    [err |-> NoErr, status |-> 0, meta |-> NoMeta, sent |-> <<>>, listing |-> <<>>]

NoRecords == [k \in {} |-> NoMeta]

InitMetadata ==
    /\ vclient = NilClient
    /\ arnIn = [shape |-> "none"] /\ arn = EmptyStr /\ arnRes = NoCall /\ resolved = {}
    /\ ForwardingUnused
    /\ CryptoUnused
    /\ TokenUnused
    /\ gwImpl = ImplService
    /\ store \in {EmptyStore,
                  StorePut(EmptyStore, ObjKey,
                           JSONDocument(ObjectMetadata(3, DefaultContentType, ValidARN))),
                  StorePut(EmptyStore, getMetadataKey(ObjKey), Bytes(3))}
    /\ putKeys = NoRecords
    /\ gwReq = NoSvcReq
    /\ gwResp = NoSvcResp
    /\ backendLog = <<>>
    /\ vaultCalls = 0

\* Whether the backend took the sidecar this Store sent.
Kept(r) == r.log[1].status = 200

ServiceStore ==
    \E key \in ServiceKeys, md \in ServiceRecords :
       \E headers \in CallerHeaders, fault \in ServiceFaults :
          \E r \in {Store(key, md, headers, store, fault)} :
              /\ gwReq' = [NoSvcReq EXCEPT !.op = "Store", !.key = key, !.record = md,
                                           !.headers = headers]
              /\ gwResp' = [NoSvcResp EXCEPT !.err = r.err, !.status = r.status,
                                             !.sent = r.sent]
              /\ store' = r.store
              /\ putKeys' = IF Kept(r)
                            THEN [k \in DOMAIN putKeys \cup {key} |->
                                     IF k = key THEN md ELSE putKeys[k]]
                            ELSE putKeys
              /\ backendLog' = r.log
              /\ UNCHANGED <<keyVars, fwdVars, cryptoVars, tokenVars, gwImpl, vaultCalls>>

ServiceGet ==
    \E key \in ServiceKeys, fault \in ServiceFaults :
       \E r \in {Get(key, store, fault)} :
           /\ gwReq' = [NoSvcReq EXCEPT !.op = "Get", !.key = key]
           /\ gwResp' = [NoSvcResp EXCEPT !.err = r.err, !.status = r.status,
                                          !.meta = r.meta]
           /\ backendLog' = <<r.entry>>
           /\ UNCHANGED <<keyVars, fwdVars, cryptoVars, tokenVars, gwImpl, store, putKeys,
                          vaultCalls>>

ServiceFilter ==
    \E contents \in Listings :
       /\ gwReq' = [NoSvcReq EXCEPT !.op = "Filter", !.listing = contents]
       /\ gwResp' = [NoSvcResp EXCEPT !.listing = FilterMetadataObjects(contents)]
       /\ backendLog' = <<>>
       /\ UNCHANGED <<keyVars, fwdVars, cryptoVars, tokenVars, gwImpl, store, putKeys,
                      vaultCalls>>

\* Another writer of the bucket puts an object of its own at a sidecar path, or
\* removes the one that is there.
OtherWriter ==
    \E key \in ServiceKeys, removes \in BOOLEAN :
       /\ store' = IF removes THEN StoreRemove(store, getMetadataKey(key))
                   ELSE StorePut(store, getMetadataKey(key), Bytes(3))
       /\ putKeys' = [k \in DOMAIN putKeys \ {key} |-> putKeys[k]]
       /\ gwReq' = [NoSvcReq EXCEPT !.op = "other", !.key = key]
       /\ gwResp' = NoSvcResp
       /\ backendLog' = <<>>
       /\ UNCHANGED <<keyVars, fwdVars, cryptoVars, tokenVars, gwImpl, vaultCalls>>

NextMetadata == ServiceStore \/ ServiceGet \/ ServiceFilter \/ OtherWriter

SpecMetadata == InitMetadata /\ [][NextMetadata]_vars

\* The one request a Store or a Get has made.
Asked == backendLog[1]

\* The backend answered: no transport failure (which leaves the status at 0).
Answered == Asked.status # 0

\* The backend answered with a status below 400 and a body that can be read and
\* holds a metadata document.
Deserializable ==
    /\ Asked.ok /\ Asked.intact
    /\ Asked.body.kind = "object" /\ Asked.body.object.meta.valid

C22_StoreOkOnlyFor2xx ==
    gwReq.op = "Store" =>
        /\ Len(backendLog) = 1
        /\ Asked.method = "PUT"
        /\ Asked.path = gwReq.key \o MetadataSuffix
        /\ gwResp.sent = <<[method |-> "PUT", path |-> gwReq.key \o MetadataSuffix,
                            headers |-> gwReq.headers]>>
        /\ (gwResp.err = NoErr) = (Asked.status \in 200..299)
        /\ Answered /\ Asked.status \notin 200..299
              => gwResp.err = ErrStoreHTTP /\ gwResp.status = Asked.status
        /\ ~Answered => gwResp.err # NoErr

\* The key ends with ".metadata", spelt out character by character.
EndsWithMetadata(key) ==
    /\ Len(key) >= 9
    /\ \A i \in 1..9 : key[Len(key) - 9 + i] = MetadataSuffix[i]

\* C23: FilterMetadataObjects returns exactly the entries whose key does not end
\* with ".metadata", in their order and with their fields as they were, and
\* filtering its result again changes nothing.
C23_FilterIsSuffixSubsequence ==
    gwReq.op = "Filter" =>
        LET given == gwReq.listing
            result == gwResp.listing
            kept == {i \in 1..Len(given) : ~EndsWithMetadata(given[i].Key)}
        IN  /\ Len(result) = Cardinality(kept)
            /\ \E at \in [1..Len(result) -> kept] :
                  /\ \A i, j \in 1..Len(result) : i < j => at[i] < at[j]
                  /\ \A i \in 1..Len(result) : result[i] = given[at[i]]
            /\ FilterMetadataObjects(result) = result

\* A listing with a sidecar entry and an entry whose key holds ".metadata" before
\* its last character was filtered.
C23_Witness ==
    /\ gwReq.op = "Filter"
    /\ \E i \in 1..Len(gwReq.listing) : EndsWithMetadata(gwReq.listing[i].Key)
    /\ \E i \in 1..Len(gwResp.listing) :
          gwResp.listing[i].Key = getMetadataKey(ObjKey) \o <<"x">>
    /\ Len(gwResp.listing) = 2
    /\ Len(gwReq.listing) = 3

\* Two records agree in every field; an empty and an absent custom map agree.
SameRecord(a, b) ==
    /\ a.valid /\ b.valid
    /\ a.ContentLength = b.ContentLength
    /\ a.ContentType = b.ContentType
    /\ a.ETag = b.ETag
    /\ a.LastModified = b.LastModified
    /\ a.KMSKeyARN = b.KMSKeyARN
    /\ a.CustomMeta.m = b.CustomMeta.m

\* C30: when the backend took the record a Store sent for a key and nothing has
\* written the sidecar since, a Get of that key that the backend answers in full
\* returns a record equal to it, and Store, Get and DeleteObject all address
\* <key>.metadata.
C30_StoreGetRoundTrip ==
    (gwReq.op = "Get" /\ gwReq.key \in DOMAIN putKeys /\ Asked.status = 200 /\ Asked.intact)
        => /\ gwResp.err = NoErr
           /\ SameRecord(gwResp.meta, putKeys[gwReq.key])
           /\ Asked.path = Store(gwReq.key, putKeys[gwReq.key], <<>>, store, "none").log[1].path
           /\ Asked.path = DeleteObject(gwReq.key, store, "none", "none").log[2].path

(***************************************************************************)
(* Claims about listings and about the order of writes                     *)
(***************************************************************************)
\* A ListObjects got as far as looking at the entries: always in the proxy; in
\* the handlers when the backend's listing arrived whole and parsed.
ListingEnriched ==
    /\ gwReq.op = "ListObjects"
    /\ gwImpl = ImplHandlers =>
          /\ backendLog[1].ok /\ backendLog[1].intact
          /\ backendLog[1].body.kind = "ListBucketResult"

\* The entries as the store reports them, before any sidecar is looked at.
RawEntries ==
    IF gwImpl = ImplHandlers
    THEN SelectSeq(backendLog[1].body.contents, LAMBDA e : ~EndsWithMetadata(e.Key))
    ELSE LET keys == SelectSeq(SortKeys(DOMAIN store),
                               LAMBDA k : ~Contains(k, MetadataSuffix))
         IN  [i \in 1..Len(keys) |->
                [Key |-> keys[i], LastModified |-> ModTime, ETag |-> MD5Key(keys[i]),
                 Size |-> store[keys[i]].size, StorageClass |-> StorageClass]]

\* Whether the sidecar of the i-th entry could be fetched and read, and the
\* record it holds.
SidecarFetched(i) ==
    IF gwImpl = ImplHandlers
    THEN /\ backendLog[i + 1].path = RawEntries[i].Key \o MetadataSuffix
         /\ backendLog[i + 1].ok /\ backendLog[i + 1].intact
         /\ backendLog[i + 1].body.kind = "object"
         /\ backendLog[i + 1].body.object.meta.valid
    ELSE /\ getMetadataPath(RawEntries[i].Key) \in DOMAIN store
         /\ store[getMetadataPath(RawEntries[i].Key)].meta.valid

SidecarRecord(i) ==
    IF gwImpl = ImplHandlers
    THEN Unmarshal(backendLog[i + 1].body.object.meta)
    ELSE store[getMetadataPath(RawEntries[i].Key)].meta

WritesOf(log, path) ==
    {i \in 1..Len(log) : log[i].method \in {"PUT", "WRITE"} /\ log[i].path = path}

\* What a bucket holds at a path, or that it holds nothing there.
ObjectAt(st, path) ==
    IF path \in DOMAIN st THEN [present |-> TRUE, record |-> st[path]]
    ELSE [present |-> FALSE, record |-> Bytes(0)]

\* C25: within one PutObject nothing is written unless the key was resolved, a
\* write of the sidecar comes only after a write of the object that did not fail,
\* and a request whose object write failed or was never made leaves the sidecar of
\* its key as it was.
C25_WriteOrdering ==
    [][gwReq'.op = "PutObject" =>
          LET key == gwReq'.key
              sidecar == SidecarPath(gwImpl, key)
              primaryDone == {i \in WritesOf(backendLog', key) : backendLog'[i].ok}
          IN  /\ ARNToVaultKey(gwReq'.arn).err # NoErr =>
                    \A i \in 1..Len(backendLog') : backendLog'[i].method \notin {"PUT", "WRITE"}
              /\ \A j \in WritesOf(backendLog', sidecar) : \E i \in primaryDone : i < j
              /\ primaryDone = {} => ObjectAt(store', sidecar) = ObjectAt(store, sidecar)]_vars

\* A PutObject wrote the object and, after it, the sidecar, which the bucket now
\* holds.
C25_Witness ==
    /\ gwReq.op = "PutObject"
    /\ \E i \in WritesOf(backendLog, gwReq.key) :
          /\ backendLog[i].ok
          /\ \E j \in WritesOf(backendLog, SidecarPath(gwImpl, gwReq.key)) :
                i < j /\ backendLog[j].ok
    /\ SidecarPath(gwImpl, gwReq.key) \in DOMAIN store

====
